---- MODULE Spec2Model ----
(***************************************************************************)
(* A model of pinto, a command line assistant for Beancount ledgers:       *)
(*   - AccountHandler.add_entry and _new_transaction_lineno (tools.py),    *)
(*   - TransactionFile.add (transactions.py),                              *)
(* A ledger file is a sequence of lines.  A line is a record that says     *)
(* what the Beancount parser makes of it: the header of an entry (with its *)
(* date), a posting of an entry, a comment inside an entry, or a blank     *)
(* line.                                                                   *)
(***************************************************************************)
EXTENDS Integers, Sequences, FiniteSets, TLC

VARIABLES
    file,           \* the lines at the path of the transactions file
    cache,          \* AccountHandler.transactions (a cached_property)
    txn,            \* the transaction handed to the running / last add
    insert_lineno,  \* add_entry's insert_lineno
    old,            \* the file as it was when the running / last add began
    adds,           \* number of add calls made so far
    outcome,        \* "none", "running", "ok" or "raised" for the last add
    pc,             \* position inside add_entry (specification SpecIO)
    temp,           \* the lines written to the NamedTemporaryFile
    tempOpen,       \* the temporary file exists (not yet closed)
    copied,         \* number of lines copyfile has written so far
    text,           \* align_beancount: contents, a sequence of characters
    params,         \* align_beancount: its keyword arguments
    aligned,        \* align_beancount: what the last call returned or raised
    passes,         \* align_beancount: calls made, each on the last result
    split,          \* parse_split: the split given
    total,          \* parse_split: the total (in thousandths)
    total_currency, \* parse_split: the currency of the total
    result,         \* parse_split: what the call returned or raised
    template,       \* add: the template, with or without a 'lines' key
    opts,           \* add: the flags --split, --force-prompts and --dry-run
    history,        \* add: posting counts of the earlier transactions of the payee
    postings,       \* add: the postings of the transaction being composed
    lineno,         \* add: the number of the next line
    cpc,            \* add: where the command stands
    written,        \* add: calls of handler.add_entry made
    exit_code,      \* add: the exit status, -1 while running
    call,           \* a single function examined on its own: its name and arguments
    ret,            \* what that call returned or raised, and what it showed
    backup_file,    \* format_transactions: the contents of the .backup file, if any
    template_file,  \* templates.yaml: the templates, in the order of the file
    templates       \* AccountHandler.templates: the cached store, once loaded

ledgerVars == <<file, cache, txn, insert_lineno, old, adds, outcome>>
ioVars == <<pc, temp, tempOpen, copied>>
alignVars == <<text, params, aligned, passes, backup_file>>
splitVars == <<split, total, total_currency, result>>
composeVars == <<template, opts, history, postings, lineno, cpc, written, exit_code>>
templateVars == <<template_file, templates>>
callVars == <<call, ret, templateVars>>
offLedger == <<alignVars, splitVars, composeVars, callVars>>
vars == <<file, cache, txn, insert_lineno, old, adds, outcome,
          pc, temp, tempOpen, copied, text, params, aligned, passes,
          split, total, total_currency, result,
          template, opts, history, postings, lineno, cpc, written, exit_code,
          call, ret, backup_file, template_file, templates>>

(***************************************************************************)
(* Bounds.                                                                 *)
(***************************************************************************)
MaxDate == 3
MaxEntries == 2
MaxAdds == 2

Dates == 1..MaxDate
NewPostings == {1, 2}

Min(a, b) == IF a < b THEN a ELSE b
Max(a, b) == IF a > b THEN a ELSE b

\* s[a..b], empty when b < a
Slice(s, a, b) == IF b < a THEN <<>> ELSE [i \in 1..(b - a + 1) |-> s[a + i - 1]]

(***************************************************************************)
(* Lines and entries.                                                      *)
(***************************************************************************)
Line(kind, id, date, ser) == [kind |-> kind, id |-> id, date |-> date, ser |-> ser]
Hdr(id, date, ser) == Line("hdr", id, date, ser)
Post(id) == Line("post", id, 0, 0)
Cmt(id) == Line("cmt", id, 0, 0)
Blank == Line("blank", 0, 0, 0)

RECURSIVE Repeat(_, _)
Repeat(x, n) == IF n <= 0 THEN <<>> ELSE <<x>> \o Repeat(x, n - 1)

\* printer.format_entry: the header line and one line per posting.  ser is
\* the number of lines of the serialised form.
serialise_entry(t) == <<Hdr(t.id, t.date, t.ser)>> \o Repeat(Post(t.id), t.ser - 1)

\* The source text of an existing entry.  "plain": as the printer would
\* write it.  "cmt": a comment line between its postings, which the parser
\* drops (4 source lines, 3 serialised).  "auto": a posting with an elided
\* amount that booking replicates per currency (3 source lines, 4
\* serialised).
Shapes == {"plain", "cmt", "auto"}
EntryText(id, date, shape) ==
    CASE shape = "plain" -> <<Hdr(id, date, 3), Post(id), Post(id)>>
      [] shape = "cmt"   -> <<Hdr(id, date, 3), Post(id), Cmt(id), Post(id)>>
      [] shape = "auto"  -> <<Hdr(id, date, 4), Post(id), Post(id)>>

RECURSIVE Render(_, _, _)
Render(entries, blanks, i) ==
    IF i > Len(entries) THEN <<>>
    ELSE EntryText(i, entries[i][1], entries[i][2])
         \o (IF blanks THEN <<Blank>> ELSE <<>>)
         \o Render(entries, blanks, i + 1)

HdrIdx(f) == {i \in 1..Len(f) : f[i].kind = "hdr"}

\* Entries appear in non-decreasing date order by line position.
DateOrdered(f) ==
    \A i, j \in HdrIdx(f) : i < j => f[i].date <= f[j].date

InitLedgers ==
    {Render(es, b, 1) :
        es \in UNION {[1..n -> Dates \X Shapes] : n \in 0..MaxEntries},
        b \in BOOLEAN}

(***************************************************************************)
(* AccountHandler.transactions: the transactions as the loader returns     *)
(* them, sorted by date and then by line number, each with its lineno.     *)
(***************************************************************************)
TxnOf(f, i) == [date |-> f[i].date, lineno |-> i, ser |-> f[i].ser, id |-> f[i].id]

Before(a, b) == a.date < b.date \/ (a.date = b.date /\ a.lineno < b.lineno)

RECURSIVE SortTxns(_)
SortTxns(S) ==
    IF S = {} THEN <<>>
    ELSE LET m == CHOOSE x \in S : \A y \in S \ {x} : Before(x, y)
         IN <<m>> \o SortTxns(S \ {m})

transactions(f) == SortTxns({TxnOf(f, i) : i \in HdrIdx(f)})

(***************************************************************************)
(* AccountHandler._new_transaction_lineno.  With no transaction at all the *)
(* loop variable is unbound after the loop and line 235 raises.            *)
(***************************************************************************)
Later(txns, t) == {i \in 1..Len(txns) : txns[i].date > t.date}

FirstLater(txns, t) == CHOOSE i \in Later(txns, t) : \A j \in Later(txns, t) : i <= j

_new_transaction_lineno(txns, t) ==
    IF Later(txns, t) # {}
    THEN [ok |-> TRUE, lineno |-> txns[FirstLater(txns, t)].lineno]
    ELSE IF Len(txns) = 0
         THEN [ok |-> FALSE, lineno |-> 0]
         ELSE [ok |-> TRUE,
               lineno |-> txns[Len(txns)].lineno + txns[Len(txns)].ser]

(***************************************************************************)
(* AccountHandler.add_entry.                                               *)
(***************************************************************************)
\* lines 203-207: readline() until lineno reaches insert_lineno; at the end
\* of the file readline() returns the empty string.
\* The same with the loop condition lineno <= insert_lineno (a faulty variant).
HeadLinesOneMore(f, k) == Slice(f, 1, Min(k, Len(f)))

HeadLines(f, k) == Slice(f, 1, Min(k - 1, Len(f)))

\* lines 213-219: the rest of the source, from where the reads above
\* stopped, in chunks.
TailLines(f, k) == Slice(f, Len(HeadLines(f, k)) + 1, Len(f))

\* what add_entry writes to the temporary file.
NewContent(f, k, t) == HeadLines(f, k) \o serialise_entry(t) \o TailLines(f, k)

NewTxn(d, n) == [date |-> d, ser |-> 1 + n, id |-> MaxEntries + adds + 1]

LoadCache == IF cache.set THEN cache ELSE [set |-> TRUE, txns |-> transactions(file)]

\* The whole of add_entry, when no I/O operation fails.
AddEntry ==
    \E d \in Dates, n \in NewPostings :
        LET t == NewTxn(d, n)
            c == LoadCache
            r == _new_transaction_lineno(c.txns, t)
        IN /\ adds < MaxAdds
           /\ outcome # "raised"
           /\ cache' = c
           /\ txn' = t
           /\ old' = file
           /\ adds' = adds + 1
           /\ insert_lineno' = r.lineno
           /\ IF r.ok
              THEN /\ file' = NewContent(file, r.lineno, t)
                   /\ outcome' = "ok"
              ELSE /\ file' = file
                   /\ outcome' = "raised"
           /\ UNCHANGED <<ioVars, offLedger>>

NoTxn == [date |-> 0, ser |-> 0, id |-> 0]

(***************************************************************************)
(* add_entry step by step, with the I/O operations that may fail           *)
(* (specification SpecIO).                                                 *)
(***************************************************************************)
MaxIOAdds == 1

\* lines 198-200: the insertion line, then the temporary file is created.
\* An exception of _new_transaction_lineno leaves before line 200.
Begin ==
    \E d \in Dates, n \in NewPostings :
        LET t == NewTxn(d, n)
            c == LoadCache
            r == _new_transaction_lineno(c.txns, t)
        IN /\ pc = "idle"
           /\ adds < MaxIOAdds
           /\ outcome # "raised"
           /\ cache' = c
           /\ txn' = t
           /\ old' = file
           /\ adds' = adds + 1
           /\ insert_lineno' = r.lineno
           /\ copied' = 0
           /\ temp' = <<>>
           /\ IF r.ok
              THEN /\ pc' = "head"
                   /\ tempOpen' = TRUE
                   /\ outcome' = "running"
              ELSE /\ pc' = "idle"
                   /\ tempOpen' = FALSE
                   /\ outcome' = "raised"
           /\ UNCHANGED <<file, offLedger>>

\* lines 202-207
CopyHead ==
    /\ pc = "head"
    /\ temp' = HeadLines(file, insert_lineno)
    /\ pc' = "entry"
    /\ UNCHANGED <<ledgerVars, tempOpen, copied, offLedger>>

\* line 210
WriteEntry ==
    /\ pc = "entry"
    /\ temp' = temp \o serialise_entry(txn)
    /\ pc' = "tail"
    /\ UNCHANGED <<ledgerVars, tempOpen, copied, offLedger>>

\* lines 213-219
CopyTail ==
    /\ pc = "tail"
    /\ temp' = temp \o TailLines(file, insert_lineno)
    /\ pc' = "flush"
    /\ UNCHANGED <<ledgerVars, tempOpen, copied, offLedger>>

\* line 222
Flush ==
    /\ pc = "flush"
    /\ pc' = "copyfile"
    /\ UNCHANGED <<ledgerVars, temp, tempOpen, copied, offLedger>>

\* line 224: shutil.copyfile opens the transactions file for writing, which
\* truncates it ...
CopyfileOpen ==
    /\ pc = "copyfile"
    /\ file' = <<>>
    /\ copied' = 0
    /\ pc' = "copying"
    /\ UNCHANGED <<cache, txn, insert_lineno, old, adds, outcome, temp, tempOpen, offLedger>>

\* ... and then writes the temporary file's content to it block by block.
CopyfileWrite ==
    /\ pc = "copying"
    /\ copied < Len(temp)
    /\ file' = Append(file, temp[copied + 1])
    /\ copied' = copied + 1
    /\ UNCHANGED <<cache, txn, insert_lineno, old, adds, outcome, temp, tempOpen, pc, offLedger>>

CopyfileDone ==
    /\ pc = "copying"
    /\ copied = Len(temp)
    /\ pc' = "close"
    /\ UNCHANGED <<ledgerVars, temp, tempOpen, copied, offLedger>>

\* line 226: closing the NamedTemporaryFile deletes it.
Close ==
    /\ pc = "close"
    /\ tempOpen' = FALSE
    /\ temp' = <<>>
    /\ pc' = "idle"
    /\ outcome' = "ok"
    /\ UNCHANGED <<file, cache, txn, insert_lineno, old, adds, copied, offLedger>>

\* A read, a write or the copy raises OSError: add_entry has no handler and
\* no finally clause, so the exception leaves it where it stands.
Fail ==
    /\ pc \in {"head", "entry", "tail", "flush", "copyfile", "copying"}
    /\ pc' = "idle"
    /\ outcome' = "raised"
    /\ UNCHANGED <<file, cache, txn, insert_lineno, old, adds, temp, tempOpen, copied, offLedger>>

\* The NamedTemporaryFile left open by an exception is closed, and so deleted,
\* only when the interpreter finalises the object (the traceback is dropped,
\* or the process ends): at some later time, or never.
Finalize ==
    /\ pc = "idle"
    /\ outcome = "raised"
    /\ tempOpen
    /\ tempOpen' = FALSE
    /\ temp' = <<>>
    /\ UNCHANGED <<ledgerVars, pc, copied, offLedger>>

InitIO ==
    /\ pc = "idle"
    /\ temp = <<>>
    /\ tempOpen = FALSE
    /\ copied = 0

InitLedger ==
    /\ file \in {f \in InitLedgers : DateOrdered(f)}
    /\ cache = [set |-> FALSE, txns |-> <<>>]
    /\ txn = NoTxn
    /\ insert_lineno = 0
    /\ old = <<>>
    /\ adds = 0
    /\ outcome = "none"

\* the aligner at rest (the ledger specifications do not call it)
NoAlign ==
    /\ text = <<>>
    /\ params = [prefix_width |-> 0, num_width |-> 0, currency_column |-> 0, indent_width |-> 0]
    /\ aligned = [st |-> "none", out |-> <<>>]
    /\ passes = 0
    /\ backup_file = [exists |-> FALSE, s |-> <<>>]

\* the split calculator at rest
NoSplit ==
    /\ split = [kind |-> "str", toks |-> <<>>, v |-> 0]
    /\ total = 0
    /\ total_currency = "USD"
    /\ result = [st |-> "none", value |-> 0, msg |-> ""]

\* the add command not started
NoCompose ==
    /\ template = [has_lines |-> FALSE, lines |-> <<>>]
    /\ opts = [split |-> FALSE, force_prompts |-> FALSE, dry_run |-> FALSE]
    /\ history = {}
    /\ postings = <<>>
    /\ lineno = 0
    /\ cpc = "idle"
    /\ written = 0
    /\ exit_code = -1

\* no function examined on its own
\* no template file read
NoTemplates ==
    /\ template_file = <<>>
    /\ templates = [set |-> FALSE, store |-> <<>>]

NoCall ==
    /\ call = [fn |-> "none"]
    /\ ret = [st |-> "none"]
    /\ NoTemplates

Init == InitLedger /\ InitIO /\ NoAlign /\ NoSplit /\ NoCompose /\ NoCall

Next == AddEntry

Spec == Init /\ [][Next]_vars

NextIO ==
    \/ Begin
    \/ CopyHead
    \/ WriteEntry
    \/ CopyTail
    \/ Flush
    \/ CopyfileOpen
    \/ CopyfileWrite
    \/ CopyfileDone
    \/ Close
    \/ Fail
    \/ Finalize

SpecIO == Init /\ [][NextIO]_vars

(***************************************************************************)
(* TransactionFile.add (transactions.py), specification SpecTF.            *)
(***************************************************************************)
\* _parse_date_from_line: line.split()[0] handed to strptime.  A line that
\* holds only whitespace has no first token (IndexError); a first token that
\* is no date makes strptime raise ValueError.
_parse_date_from_line(line) ==
    CASE line.kind = "hdr"   -> [st |-> "date", date |-> line.date]
      [] line.kind = "blank" -> [st |-> "IndexError", date |-> 0]
      [] OTHER               -> [st |-> "ValueError", date |-> 0]

\* lines 112-121: the loop over enumerate(lines); lineno counts from 0.
RECURSIVE Scan(_, _, _)
Scan(lines, tdate, i) ==
    IF i > Len(lines) THEN [st |-> "end", lineno |-> 0]
    ELSE LET r == _parse_date_from_line(lines[i])
         IN CASE r.st = "IndexError" -> [st |-> "raise", lineno |-> 0]
              [] r.st = "ValueError" -> Scan(lines, tdate, i + 1)
              [] r.st = "date" ->
                    IF r.date > tdate THEN [st |-> "found", lineno |-> i - 1]
                    ELSE Scan(lines, tdate, i + 1)

\* Transaction.posting_lines: the header line and one line per posting.
posting_lines(t) == serialise_entry(t)

\* lines 122-127: lines[insert_lineno:insert_lineno] = posting_lines; a slice
\* index past the end of the list means its end.
Splice(lines, k, new) ==
    Slice(lines, 1, Min(k, Len(lines))) \o new \o Slice(lines, Min(k, Len(lines)) + 1, Len(lines))

TFAdd ==
    \E d \in Dates, n \in NewPostings :
        LET t == NewTxn(d, n)
            r == Scan(file, d, 1)
            k == IF r.st = "found" THEN r.lineno ELSE Len(file) + 1
        IN /\ adds < MaxAdds
           /\ outcome # "raised"
           /\ txn' = t
           /\ old' = file
           /\ adds' = adds + 1
           /\ IF r.st = "raise"
              THEN /\ file' = file
                   /\ insert_lineno' = 0
                   /\ outcome' = "raised"
              ELSE /\ file' = Splice(file, k, posting_lines(t))
                   /\ insert_lineno' = k
                   /\ outcome' = "ok"
           /\ UNCHANGED <<cache, ioVars, offLedger>>

NextTF == TFAdd

SpecTF == Init /\ [][NextTF]_vars

(***************************************************************************)
(* format.align_beancount (specification SpecAlign).  A text is a sequence *)
(* of characters; NBSP stands for a white space character other than       *)
(* space, tab and the line ends (such as U+00A0), which the regular        *)
(* expression class \s matches.                                            *)
(***************************************************************************)
SP == " "
TAB == "\t"
NL == "\n"
CR == "\r"
NBSP == "nbsp"

ReSpace == {SP, TAB, NL, CR, NBSP}       \* \s, and what str.rstrip() strips
Upper == {"A", "B", "D", "S", "U"}
Lower == {"c", "d", "x"}
Digit == {"1", "2"}
Word == Upper \cup Lower \cup Digit \cup {"_"}         \* \w, for \b
CurrencyMid == Upper \cup Digit \cup {"'", ".", "_", "-"}
AccountTail == Upper \cup Lower \cup Digit \cup {"-"}

\* the first index from i on whose character is not in C (Len(s) + 1 if none)
RECURSIVE Skip(_, _, _)
Skip(C, s, i) == IF i <= Len(s) /\ s[i] \in C THEN Skip(C, s, i + 1) ELSE i

\* str.splitlines(): the lines without their ends; "\r\n" is one line end and
\* a line end at the end of the text opens no further line.
RECURSIVE splitlines(_)
splitlines(s) ==
    IF s = <<>> THEN <<>>
    ELSE LET e == Skip(UNION {Upper, Lower, Digit, ReSpace \ {NL, CR},
                              {"_", "'", ".", "-", "+", ",", ":", ";", "\""}}, s, 1)
             n == IF e < Len(s) /\ s[e] = CR /\ s[e + 1] = NL THEN e + 2 ELSE e + 1
         IN <<Slice(s, 1, e - 1)>> \o splitlines(Slice(s, n, Len(s)))

\* [-+]?\s*[\d,]+(?:\.\d*)? at index q: the index after it, 0 if no match
NumberEnd(s, q) ==
    LET a == IF q <= Len(s) /\ s[q] \in {"-", "+"} THEN q + 1 ELSE q
        b == Skip(ReSpace, s, a)
        c == Skip(Digit \cup {","}, s, b)
    IN IF c = b THEN 0
       ELSE IF c <= Len(s) /\ s[c] = "." THEN Skip(Digit, s, c + 1) ELSE c

\* amount.CURRENCY_RE followed by \b, at index c
CurrencyAt(s, c) ==
    /\ c <= Len(s)
    /\ s[c] \in Upper
    /\ \E e \in (c + 1)..Min(Len(s), c + 23) :
          /\ \A i \in (c + 1)..(e - 1) : s[i] \in CurrencyMid
          /\ s[e] \in Upper \cup Digit
          /\ e = Len(s) \/ s[e + 1] \notin Word

\* The pattern of lines 38-43 with the group ([^";]*?) taking the first p
\* characters of the line: the groups if the rest of the pattern matches.
MatchWithPrefix(line, p) ==
    LET q == Skip(ReSpace, line, p + 1)
        r == IF q > p + 1 THEN NumberEnd(line, q) ELSE 0
        c == IF r # 0 THEN Skip(ReSpace, line, r) ELSE 0
    IN IF /\ \A i \in 1..p : line[i] \notin {"\"", ";"}
          /\ r # 0
          /\ c > r
          /\ CurrencyAt(line, c)
       THEN [ok |-> TRUE, prefix |-> Slice(line, 1, p),
             number |-> Slice(line, q, r - 1), rest |-> Slice(line, c, Len(line))]
       ELSE [ok |-> FALSE, prefix |-> line, number |-> <<>>, rest |-> <<>>]

\* re.match: the prefix group is lazy, so the shortest prefix that lets the
\* pattern match is taken; a line that does not match is kept whole as the
\* prefix, with no number (lines 44-48).
MatchLine(line) ==
    LET P == {p \in 0..Len(line) : MatchWithPrefix(line, p).ok}
    IN IF P = {} THEN [ok |-> FALSE, prefix |-> line, number |-> <<>>, rest |-> <<>>]
       ELSE MatchWithPrefix(line, CHOOSE p \in P : \A r \in P : p <= r)

match_pairs(contents) ==
    LET ls == splitlines(contents)
    IN [i \in 1..Len(ls) |-> MatchLine(ls[i])]

\* account.ACCOUNT_RE at index i
AccountAt(s, i) ==
    /\ i <= Len(s)
    /\ s[i] \in Upper
    /\ LET j == Skip(AccountTail, s, i + 1)
       IN j < Len(s) /\ s[j] = ":" /\ s[j + 1] \in Upper \cup Digit

\* The same applied only to the tuples with a number (a faulty variant).
NormalizeOne_matched_only(tup, indent_width) ==
    LET w == Skip({SP, TAB}, tup.prefix, 1)
    IN IF tup.ok /\ w > 1 /\ AccountAt(tup.prefix, w)
       THEN [tup EXCEPT !.prefix = Repeat(SP, indent_width)
                                     \o Slice(tup.prefix, w, Len(tup.prefix))]
       ELSE tup

\* normalize_indent_whitespace, for one tuple: a prefix that is white space
\* ([ \t]+) followed by an account name gets indent_width spaces instead.
NormalizeOne(tup, indent_width) ==
    LET w == Skip({SP, TAB}, tup.prefix, 1)
    IN IF w > 1 /\ AccountAt(tup.prefix, w)
       THEN [tup EXCEPT !.prefix = Repeat(SP, indent_width)
                                     \o Slice(tup.prefix, w, Len(tup.prefix))]
       ELSE tup

normalize_indent_whitespace(pairs, indent_width) ==
    [i \in 1..Len(pairs) |-> NormalizeOne(pairs[i], indent_width)]

RECURSIVE Concat(_)
Concat(ss) == IF ss = <<>> THEN <<>> ELSE Head(ss) \o Concat(Tail(ss))

\* The same with one column less taken off for the gaps (a faulty variant).
CurrencyColumnLine_three(tup, currency_column) ==
    IF ~tup.ok THEN tup.prefix \o <<NL>>
    ELSE tup.prefix
         \o Repeat(SP, currency_column - Len(tup.prefix) - Len(tup.number) - 3)
         \o <<SP, SP>> \o tup.number \o <<SP>> \o tup.rest \o <<NL>>

\* lines 56-66: " " * n is empty for n <= 0
CurrencyColumnLine(tup, currency_column) ==
    IF ~tup.ok THEN tup.prefix \o <<NL>>
    ELSE tup.prefix
         \o Repeat(SP, currency_column - Len(tup.prefix) - Len(tup.number) - 4)
         \o <<SP, SP>> \o tup.number \o <<SP>> \o tup.rest \o <<NL>>

\* str.rstrip()
RECURSIVE rstrip(_)
rstrip(s) ==
    IF s # <<>> /\ s[Len(s)] \in ReSpace THEN rstrip(Slice(s, 1, Len(s) - 1)) ELSE s

\* the maximum of a set of naturals, 0 for the empty set (lines 73-78)
MaxOf(S) == IF S = {} THEN 0 ELSE CHOOSE x \in S : \A y \in S : y <= x

\* lines 87-97: "{:<pw}  {:>nw} {}".format(prefix.rstrip(), number, rest)
WidthLine(tup, pw, nw) ==
    IF ~tup.ok THEN tup.prefix \o <<NL>>
    ELSE LET pre == rstrip(tup.prefix)
         IN pre \o Repeat(SP, pw - Len(pre)) \o <<SP, SP>>
            \o Repeat(SP, nw - Len(tup.number)) \o tup.number
            \o <<SP>> \o tup.rest \o <<NL>>

\* re.sub(r"[ \t\n]+", " ", s) of lines 106-107
RECURSIVE CollapseBlanks(_)
CollapseBlanks(s) ==
    IF s = <<>> THEN <<>>
    ELSE IF s[1] \in {SP, TAB, NL}
         THEN <<SP>> \o CollapseBlanks(Slice(s, Skip({SP, TAB, NL}, s, 1), Len(s)))
         ELSE <<s[1]>> \o CollapseBlanks(Tail(s))

\* align_beancount: the text returned, or the AssertionError of line 108
align_beancount(contents, prefix_width, num_width, currency_column, indent_width) ==
    LET pairs == match_pairs(contents)
        norm == normalize_indent_whitespace(pairs, indent_width)
        matched == {i \in 1..Len(pairs) : pairs[i].ok}
        pw == IF prefix_width # 0 THEN prefix_width
              ELSE MaxOf({Len(pairs[i].prefix) : i \in matched})
        nw == IF num_width # 0 THEN num_width
              ELSE MaxOf({Len(pairs[i].number) : i \in matched})
        formatted == Concat([i \in 1..Len(norm) |-> WidthLine(norm[i], pw, nw)])
    IN IF currency_column # 0
       THEN [st |-> "ok",
             out |-> Concat([i \in 1..Len(norm) |->
                                CurrencyColumnLine(norm[i], currency_column)])]
       ELSE IF CollapseBlanks(rstrip(contents)) = CollapseBlanks(rstrip(formatted))
            THEN [st |-> "ok", out |-> formatted]
            ELSE [st |-> "AssertionError", out |-> <<>>]

\* Inputs: up to MaxLines lines, each an optional indent, an account or a
\* word, and an optional amount; every line ends with the same line end.
MaxLines == 2

Indents == {<<>>, <<TAB>>, <<SP, SP>>}
Heads == {<<"A", ":", "B">>, <<"A", ":", "B", "c", "d">>, <<"x">>}
Amounts == {<<>>,
            <<SP, "1", SP, "U", "S", "D">>,
            <<NBSP, "1", SP, "U", "S", "D">>,
            <<SP, SP, "-", "1", "2", SP, "U", "S", "D">>}
LineTexts == {i \o h \o a : i \in Indents, h \in Heads, a \in Amounts}
LineEnds == {<<NL>>, <<CR, NL>>}

Texts ==
    {Concat([i \in 1..Len(ls) |-> ls[i] \o e]) :
        ls \in UNION {[1..n -> LineTexts] : n \in 0..MaxLines}, e \in LineEnds}

ParamSets ==
    [prefix_width : {0, 4}, num_width : {0}, currency_column : {0, 12},
     indent_width : {2, 4}]

Align ==
    /\ passes < 2
    /\ passes > 0 => aligned.st = "ok"
    /\ LET input == IF passes = 0 THEN text ELSE aligned.out
       IN /\ text' = input
          /\ aligned' = align_beancount(input, params.prefix_width, params.num_width,
                                        params.currency_column, params.indent_width)
    /\ passes' = passes + 1
    /\ UNCHANGED <<params, backup_file, ledgerVars, ioVars, splitVars, composeVars,
                   callVars>>

NoLedger ==
    /\ file = <<>>
    /\ cache = [set |-> FALSE, txns |-> <<>>]
    /\ txn = NoTxn
    /\ insert_lineno = 0
    /\ old = <<>>
    /\ adds = 0
    /\ outcome = "none"

InitAlign ==
    /\ text \in Texts
    /\ params \in ParamSets
    /\ aligned = [st |-> "none", out |-> <<>>]
    /\ passes = 0
    /\ backup_file = [exists |-> FALSE, s |-> <<>>]
    /\ NoLedger
    /\ InitIO
    /\ NoSplit
    /\ NoCompose
    /\ NoCall

NextAlign == Align

SpecAlign == InitAlign /\ [][NextAlign]_vars

(***************************************************************************)
(* One call of align_beancount with the default prefix and indent widths,  *)
(* with and without currency_column (specification SpecAlignOnce).         *)
(***************************************************************************)
OnceParamSets ==
    [prefix_width : {4}, num_width : {0}, currency_column : {0, 10, 12},
     indent_width : {4}]

AlignOnce ==
    /\ passes = 0
    /\ aligned' = align_beancount(text, params.prefix_width, params.num_width,
                                  params.currency_column, params.indent_width)
    /\ passes' = 1
    /\ UNCHANGED <<text, params, backup_file, ledgerVars, ioVars, splitVars,
                   composeVars, callVars>>

InitAlignOnce ==
    /\ text \in Texts
    /\ params \in OnceParamSets
    /\ aligned = [st |-> "none", out |-> <<>>]
    /\ passes = 0
    /\ backup_file = [exists |-> FALSE, s |-> <<>>]
    /\ NoLedger
    /\ InitIO
    /\ NoSplit
    /\ NoCompose
    /\ NoCall

NextAlignOnce == AlignOnce

SpecAlignOnce == InitAlignOnce /\ [][NextAlignOnce]_vars

(***************************************************************************)
(* The split calculator: AccountHandler.parse_fraction, parse_payment and  *)
(* parse_split (specification SpecSplit).  Numbers are counted in          *)
(* thousandths.  A string is the sequence of its white-space separated     *)
(* tokens; a token is a number or a word.  A split that comes from a       *)
(* template may be a float instead of a string.                            *)
(***************************************************************************)
Unit == 1000

Num(v) == [k |-> "num", v |-> v, w |-> ""]
Wrd(w) == [k |-> "word", v |-> 0, w |-> w]
Str(toks) == [kind |-> "str", toks |-> toks, v |-> 0]
Flt(v) == [kind |-> "float", toks |-> <<>>, v |-> v]

Ok(v) == [st |-> "ok", value |-> v, msg |-> ""]
Raise(exc, msg) == [st |-> exc, value |-> 0, msg |-> msg]

\* float(x): a float is itself; a string must hold exactly one number
ToFloat(x) ==
    IF x.kind = "float" THEN Ok(x.v)
    ELSE IF Len(x.toks) = 1 /\ x.toks[1].k = "num" THEN Ok(x.toks[1].v)
         ELSE Raise("ValueError", "")

\* the product of two numbers counted in thousandths
Times(a, b) == (a * b) \div Unit

parse_fraction(fraction) ==
    LET f == ToFloat(fraction)
    IN IF f.st # "ok" THEN Raise("ValueError", "Invalid fraction")
       ELSE IF ~(-Unit <= f.value /\ f.value <= Unit)
            THEN Raise("ValueError", "Fraction must be between -1 and 1")
            ELSE Ok(f.value)

\* parse_payment: value and currency, or (None, None) for the empty string.
\* A float has no split() method (AttributeError); unpacking other than two
\* tokens and float() of a word raise ValueError.
parse_payment(payment, allow_empty) ==
    IF payment.kind = "str" /\ payment.toks = <<>> /\ allow_empty
    THEN [st |-> "ok", value |-> 0, currency |-> "None", msg |-> ""]
    ELSE IF payment.kind = "float"
         THEN [st |-> "AttributeError", value |-> 0, currency |-> "None", msg |-> ""]
         ELSE IF Len(payment.toks) = 2 /\ payment.toks[1].k = "num"
              THEN [st |-> "ok", value |-> payment.toks[1].v,
                    currency |-> IF payment.toks[2].k = "word"
                                 THEN payment.toks[2].w ELSE "number",
                    msg |-> ""]
              ELSE [st |-> "ValueError", value |-> 0, currency |-> "None",
                    msg |-> "Invalid format; must be '<value> <currency>'."]

\* The same without the comparison of the currencies (a faulty variant).
parse_split_any_currency(s, t, cur) ==
    LET f == parse_fraction(s)
        p == parse_payment(s, TRUE)
    IN IF f.st = "ok" THEN Ok(Times(f.value, t))
       ELSE IF p.st = "ValueError" THEN Raise("ValueError", "Invalid split")
       ELSE IF p.st # "ok" THEN Raise(p.st, "")
       ELSE Ok(p.value)

\* parse_split: the except clause of line 377 catches both errors of
\* parse_fraction.
parse_split(s, t, cur) ==
    LET f == parse_fraction(s)
        p == parse_payment(s, TRUE)
    IN IF f.st = "ok" THEN Ok(Times(f.value, t))
       ELSE IF p.st = "ValueError" THEN Raise("ValueError", "Invalid split")
       ELSE IF p.st # "ok" THEN Raise(p.st, "")
       ELSE IF p.currency # cur THEN Raise("ValueError", "Currency must be")
       ELSE Ok(p.value)

valid_fraction(fraction) == parse_fraction(fraction).st = "ok"

\* valid_payment, applied to what the user typed (a string): parse_payment
\* is called with allow_empty left at True
valid_payment(payment, allow_empty) ==
    IF payment.kind = "str" /\ payment.toks = <<>> THEN allow_empty
    ELSE parse_payment(payment, TRUE).st # "ValueError"

valid_split(s) == valid_fraction(s) \/ valid_payment(s, FALSE)

\* Inputs.
SplitNumbers == {-1500, -1000, -500, 0, 500, 1000, 1500, 25000}
Currencies == {"USD", "EUR"}
SplitTokens == {Num(v) : v \in SplitNumbers} \cup {Wrd(w) : w \in Currencies}
MaxTokens == 2
SplitInputs ==
    {Str(ts) : ts \in UNION {[1..n -> SplitTokens] : n \in 0..MaxTokens}}
        \cup {Flt(v) : v \in SplitNumbers}
Totals == {-2500, 0, 10010, 100000}

ParseSplit ==
    /\ result.st = "none"
    /\ result' = parse_split(split, total, total_currency)
    /\ UNCHANGED <<split, total, total_currency, ledgerVars, ioVars, alignVars,
                   composeVars, callVars>>

InitSplit ==
    /\ split \in SplitInputs
    /\ total \in Totals
    /\ total_currency \in Currencies
    /\ result = [st |-> "none", value |-> 0, msg |-> ""]
    /\ NoLedger
    /\ InitIO
    /\ NoAlign
    /\ NoCompose
    /\ NoCall

NextSplit == ParseSplit

SpecSplit == InitSplit /\ [][NextSplit]_vars

(***************************************************************************)
(* The add command: add_transaction, _add_linedata and _add_splitdata of   *)
(* __main__.py (specification SpecCompose).  The prompts return what the   *)
(* user typed, already validated; the answers are the inputs of the        *)
(* actions.                                                                *)
(***************************************************************************)
MaxSplits == 1
MaxLineno == 2
MaxTemplateLines == 2

Accounts == {"Expenses:Food", "Assets:Bank"}

\* The same without rounding (a faulty variant).
NoRound(v) == v

\* round(v, 2) of a number counted in thousandths (no input of the model is
\* a tie)
Round2(v) == ((v + 5) \div 10) * 10

\* create_simple_posting: number is the rounded amount, or None; exact keeps
\* the amount before rounding
Posting(account, hasNumber, number, currency, exact, of) ==
    [account |-> account, hasNumber |-> hasNumber, number |-> number,
     currency |-> currency, exact |-> exact, of |-> of]

\* the keyword defaults of _add_splitdata and of _add_linedata
DefaultSplit == [value |-> Flt(-500), prompt_value |-> TRUE]
DefaultLine == [no_value |-> FALSE, has_splits |-> FALSE, splits |-> <<>>]

\* handler.filter_accounts(lineno=..): postings[lineno - 1] of each earlier
\* transaction of the payee
filter_accounts_raises(k) == \E n \in history : n < k

\* The same without the test svalue != 0 (a faulty variant).
_add_splitdata_no_zero_test(tvalue, tcurrency, sp, ans) ==
    LET svalue == IF sp.prompt_value
                  THEN parse_split(ans.split, tvalue, tcurrency)
                  ELSE parse_split(sp.value, tvalue, tcurrency)
    IN IF svalue.st # "ok" THEN [st |-> svalue.st, new |-> <<>>, warned |-> FALSE]
       ELSE [st |-> "ok",
             new |-> <<Posting(ans.account, TRUE, Round2(svalue.value),
                               tcurrency, svalue.value, "split")>>,
             warned |-> FALSE]

\* _add_splitdata: one split of the line (taccount, tvalue, tcurrency); sp
\* is the split of the template or DefaultSplit, ans what the user answered;
\* warned: 'Zero value split ignored' was shown
_add_splitdata(tvalue, tcurrency, sp, ans) ==
    LET svalue == IF sp.prompt_value
                  THEN parse_split(ans.split, tvalue, tcurrency)
                  ELSE parse_split(sp.value, tvalue, tcurrency)
    IN IF svalue.st # "ok" THEN [st |-> svalue.st, new |-> <<>>, warned |-> FALSE]
       ELSE IF svalue.value # 0
            THEN [st |-> "ok",
                  new |-> <<Posting(ans.account, TRUE, Round2(svalue.value),
                                    tcurrency, svalue.value, "split")>>,
                  warned |-> FALSE]
            ELSE [st |-> "ok", new |-> <<>>, warned |-> TRUE]

\* the splits of a line one after the other; the first that raises ends them
RECURSIVE AddSplits(_, _, _, _, _)
AddSplits(tvalue, tcurrency, sps, answers, i) ==
    IF i > Len(answers) THEN [st |-> "ok", new |-> <<>>]
    ELSE LET one == _add_splitdata(tvalue, tcurrency, sps[i], answers[i])
             rest == AddSplits(tvalue, tcurrency, sps, answers, i + 1)
         IN IF one.st # "ok" THEN one
            ELSE [st |-> rest.st, new |-> one.new \o rest.new]

\* The same with the splits of a template taken without do_split (a faulty
\* variant).
SplitsWanted_template_always(line, pay, do_split) ==
    ~line.no_value /\ pay.asked /\ pay.currency # "None" /\ (do_split \/ line.has_splits)

\* the condition of line 94: not no_value and tvalue is not None and do_split
SplitsWanted(line, pay, do_split) ==
    ~line.no_value /\ pay.asked /\ pay.currency # "None" /\ do_split

\* what payment_prompt returned, or (None, None) for a line without value
LinePayment(line, force_prompts, payment) ==
    IF ~line.no_value \/ force_prompts
    THEN LET p == parse_payment(payment, TRUE)
         IN [asked |-> TRUE, value |-> p.value, currency |-> p.currency]
    ELSE [asked |-> FALSE, value |-> 0, currency |-> "None"]

\* the number of calls of _add_splitdata the answers must cover: the splits
\* of the template, or as many as the user asks for
SplitCounts(line, pay, do_split) ==
    IF ~SplitsWanted(line, pay, do_split) THEN {0}
    ELSE IF line.has_splits THEN {Len(line.splits)}
    ELSE 0..MaxSplits

\* _add_linedata: the postings it appends, or the exception it raises
_add_linedata(k, line, do_split, force_prompts, in) ==
    LET pay == LinePayment(line, force_prompts, in.payment)
        has == pay.asked /\ pay.currency # "None"
        own == Posting(in.account, has, IF has THEN Round2(pay.value) ELSE 0,
                       pay.currency, pay.value, "line")
        sps == IF line.has_splits THEN line.splits
               ELSE [i \in 1..Len(in.splits) |-> DefaultSplit]
        more == IF SplitsWanted(line, pay, do_split)
                THEN AddSplits(pay.value, pay.currency, sps, in.splits, 1)
                ELSE [st |-> "ok", new |-> <<>>]
    IN IF filter_accounts_raises(k) THEN [st |-> "IndexError", new |-> <<>>]
       ELSE [st |-> more.st, new |-> <<own>> \o more.new]

\* Inputs: what the user may answer, and the templates.
Payments == {Str(<<>>), Str(<<Num(10004), Wrd("USD")>>)}
UserSplits == {s \in {Str(<<Num(-500)>>), Str(<<Num(0)>>),
                      Str(<<Num(2500), Wrd("USD")>>), Str(<<Num(2500), Wrd("EUR")>>)} :
                  valid_split(s)}
\* the account of a split is data only: one account is drawn for it
SplitAnswers == [account : {"Assets:Bank"}, split : UserSplits]
LineAnswers(n) == [account : Accounts, payment : Payments, splits : [1..n -> SplitAnswers]]

TemplateSplits == {[value |-> Flt(-500), prompt_value |-> FALSE],
                   [value |-> Flt(0), prompt_value |-> FALSE],
                   [value |-> Flt(-500), prompt_value |-> TRUE]}
TemplateLines ==
    {[no_value |-> nv, has_splits |-> FALSE, splits |-> <<>>] : nv \in BOOLEAN}
        \cup {[no_value |-> nv, has_splits |-> TRUE, splits |-> <<sp>>] :
                  nv \in BOOLEAN, sp \in TemplateSplits}
Templates ==
    {[has_lines |-> FALSE, lines |-> <<>>]}
        \cup {[has_lines |-> TRUE, lines |-> ls] :
                  ls \in UNION {[1..n -> TemplateLines] : n \in 0..MaxTemplateLines}}

\* one call of _add_linedata from add_transaction: the postings are appended;
\* an exception ends the command
LineStep(k, line, after) ==
    \E n \in 0..MaxSplits :
        \E in \in LineAnswers(n) :
            LET pay == LinePayment(line, opts.force_prompts, in.payment)
                r == _add_linedata(k, line, opts.split, opts.force_prompts, in)
            IN /\ n \in SplitCounts(line, pay, opts.split)
               /\ postings' = postings \o r.new
               /\ IF r.st = "ok"
                  THEN cpc' = after /\ exit_code' = exit_code
                  ELSE cpc' = "raised" /\ exit_code' = 1

\* add_transaction, lines 342-350: the next line of the template
TemplateLine ==
    /\ cpc = "lines"
    /\ template.has_lines
    /\ lineno <= Len(template.lines)
    /\ LineStep(lineno, template.lines[lineno], "lines")
    /\ lineno' = lineno + 1
    /\ UNCHANGED <<template, opts, history, written, ledgerVars, ioVars,
                   alignVars, splitVars, callVars>>

\* add_transaction, lines 352-357: the line added after the template's lines
\* when total < 2
SecondLine ==
    /\ cpc = "lines"
    /\ template.has_lines
    /\ lineno > Len(template.lines)
    /\ Len(template.lines) < 2
    /\ LineStep(2, DefaultLine, "show")
    /\ UNCHANGED <<template, opts, history, lineno, written, ledgerVars, ioVars,
                   alignVars, splitVars, callVars>>

\* add_transaction, lines 359-376: one pass of the loop without a template;
\* 'Add another line?' is asked from the second line on
InteractiveLine ==
    /\ cpc = "lines"
    /\ ~template.has_lines
    /\ \E new_line \in BOOLEAN :
          /\ lineno < 2 => new_line
          /\ new_line => lineno < MaxLineno
          /\ LineStep(lineno, DefaultLine, IF new_line THEN "lines" ELSE "show")
    /\ lineno' = lineno + 1
    /\ UNCHANGED <<template, opts, history, written, ledgerVars, ioVars,
                   alignVars, splitVars, callVars>>

\* add_transaction, lines 378-380: the draft is shown
ShowDraft ==
    /\ \/ cpc = "show"
       \/ /\ cpc = "lines"
          /\ template.has_lines
          /\ lineno > Len(template.lines)
          /\ Len(template.lines) >= 2
    /\ cpc' = "draft"
    /\ UNCHANGED <<template, opts, history, postings, lineno, written, exit_code,
                   ledgerVars, ioVars, alignVars, splitVars, callVars>>

\* The same without the test of dry_run (a faulty variant).
SaveWritesAlways(yes) == yes

\* add_transaction, lines 382-384: add_entry is called when the user
\* confirmed and dry_run is not set
SaveWrites(yes) == yes /\ ~opts.dry_run

\* add_transaction, lines 382-387: 'Save?', and handler.add_entry on the
\* transaction (tdate, asked at line 242, is used only here)
Save ==
    /\ cpc = "draft"
    /\ \E yes \in BOOLEAN, d \in {1, MaxDate} :
          LET t == [date |-> d, ser |-> 1 + Len(postings), id |-> MaxEntries + 1]
              c == LoadCache
              r == _new_transaction_lineno(c.txns, t)
          IN IF SaveWrites(yes)
             THEN /\ written' = written + 1
                  /\ cache' = c
                  /\ txn' = t
                  /\ old' = file
                  /\ adds' = adds + 1
                  /\ insert_lineno' = r.lineno
                  /\ IF r.ok
                     THEN /\ file' = NewContent(file, r.lineno, t)
                          /\ outcome' = "ok"
                          /\ cpc' = "saved"
                          /\ exit_code' = 0
                     ELSE /\ file' = file
                          /\ outcome' = "raised"
                          /\ cpc' = "raised"
                          /\ exit_code' = 1
             ELSE /\ written' = written
                  /\ cpc' = IF yes THEN "saved" ELSE "declined"
                  /\ exit_code' = IF yes THEN 0 ELSE 1
                  /\ UNCHANGED ledgerVars
    /\ UNCHANGED <<template, opts, history, postings, lineno,
                   ioVars, alignVars, splitVars, callVars>>

\* the ledgers of the add command: empty, or one entry with one or with two
\* postings
ComposeLedgers == {<<>>, <<Hdr(1, 1, 2), Post(1)>>, <<Hdr(1, 1, 3), Post(1), Post(1)>>}

\* the numbers of postings of the entries of a ledger
PostingCounts(f) ==
    {Cardinality({j \in 1..Len(f) : f[j].kind = "post" /\ f[j].id = f[i].id}) :
        i \in HdrIdx(f)}

InitCompose ==
    /\ template \in Templates
    /\ opts \in [split : BOOLEAN, force_prompts : BOOLEAN, dry_run : BOOLEAN]
    /\ file \in ComposeLedgers
    /\ history \in SUBSET PostingCounts(file)
    /\ postings = <<>>
    /\ lineno = 1
    /\ cpc = "lines"
    /\ written = 0
    /\ exit_code = -1
    /\ cache = [set |-> FALSE, txns |-> <<>>]
    /\ txn = NoTxn
    /\ insert_lineno = 0
    /\ old = <<>>
    /\ adds = 0
    /\ outcome = "none"
    /\ InitIO
    /\ NoAlign
    /\ NoSplit
    /\ NoCall

NextCompose == TemplateLine \/ SecondLine \/ InteractiveLine \/ ShowDraft \/ Save

SpecCompose == InitCompose /\ [][NextCompose]_vars

(***************************************************************************)
(* _add_splitdata called on its own (specification SpecSplitData).         *)
(***************************************************************************)
LineValues == {-2500, 0, 10004, 100000}

SplitDataCalls ==
    [fn : {"_add_splitdata"}, tvalue : LineValues, tcurrency : Currencies,
     sp : TemplateSplits \cup {DefaultSplit}, ans : SplitAnswers]

AddSplitData ==
    /\ call.fn = "_add_splitdata"
    /\ ret.st = "none"
    /\ ret' = _add_splitdata(call.tvalue, call.tcurrency, call.sp, call.ans)
    /\ UNCHANGED <<call, templateVars, ledgerVars, ioVars, alignVars, splitVars, composeVars>>

\* everything but the examined function at rest
OnlyCall == NoLedger /\ InitIO /\ NoAlign /\ NoSplit /\ NoCompose /\ NoTemplates

InitSplitData ==
    /\ call \in SplitDataCalls
    /\ ret = [st |-> "none"]
    /\ OnlyCall

NextSplitData == AddSplitData

SpecSplitData == InitSplitData /\ [][NextSplitData]_vars

(***************************************************************************)
(* _add_linedata called on its own (specification SpecLineData).           *)
(***************************************************************************)
LineDataCalls ==
    {c \in [fn : {"_add_linedata"}, k : 1..MaxLineno,
            line : TemplateLines \cup {DefaultLine},
            do_split : BOOLEAN, force_prompts : BOOLEAN,
            in : UNION {LineAnswers(n) : n \in 0..MaxSplits}] :
        Len(c.in.splits) \in
            SplitCounts(c.line, LinePayment(c.line, c.force_prompts, c.in.payment),
                        c.do_split)}

AddLineData ==
    /\ call.fn = "_add_linedata"
    /\ ret.st = "none"
    /\ ret' = _add_linedata(call.k, call.line, call.do_split, call.force_prompts, call.in)
    /\ UNCHANGED <<call, templateVars, ledgerVars, ioVars, alignVars, splitVars, composeVars>>

InitLineData ==
    /\ call \in LineDataCalls
    /\ ret = [st |-> "none"]
    /\ history \in SUBSET (1..MaxLineno)
    /\ template = [has_lines |-> FALSE, lines |-> <<>>]
    /\ opts = [split |-> FALSE, force_prompts |-> FALSE, dry_run |-> FALSE]
    /\ postings = <<>>
    /\ lineno = 0
    /\ cpc = "idle"
    /\ written = 0
    /\ exit_code = -1
    /\ NoLedger
    /\ InitIO
    /\ NoAlign
    /\ NoSplit
    /\ NoTemplates

NextLineData == AddLineData

SpecLineData == InitLineData /\ [][NextLineData]_vars

(***************************************************************************)
(* The payee and the narration of the add command: add_transaction, lines  *)
(* 252-320, and _ensure_list (specification SpecHeader).  A value of the   *)
(* template is absent (None), False, a string or a list; a command-line    *)
(* value is None or a string, which may be empty.                          *)
(***************************************************************************)
Names == {"Shop", "Cafe"}

Absent == [kind |-> "absent", s |-> "", xs |-> <<>>]
IsFalse == [kind |-> "false", s |-> "", xs |-> <<>>]
OneStr(x) == [kind |-> "str", s |-> x, xs |-> <<>>]
AList(xs) == [kind |-> "list", s |-> "", xs |-> xs]

None == [has |-> FALSE, s |-> ""]
Some(x) == [has |-> TRUE, s |-> x]

\* _ensure_list: None and False give [], a string a one-item list
_ensure_list(item) ==
    CASE item.kind \in {"absent", "false"} -> <<>>
      [] item.kind = "str" -> <<item.s>>
      [] item.kind = "list" -> item.xs

\* The same with the command-line value tested for truth instead of
\* 'is not None' (a faulty variant).
HeaderField_truthy(fn, flag, tmpl, force_prompts, answer) ==
    LET template_values == _ensure_list(tmpl)
        Asked(prefill, sugg, from) ==
            [prompted |-> TRUE, value |-> Some(answer), prefill |-> prefill,
             suggestions |-> sugg, from |-> from, warned |-> FALSE]
        Taken(v, w) ==
            [prompted |-> FALSE, value |-> v, prefill |-> None,
             suggestions |-> <<>>, from |-> "none", warned |-> w]
    IN IF flag.has /\ flag.s # ""
       THEN IF force_prompts THEN Asked(flag, template_values, "template")
            ELSE Taken(flag, template_values # <<>>)
       ELSE IF template_values # <<>>
            THEN IF Len(template_values) = 1 /\ ~force_prompts
                 THEN Taken(Some(template_values[1]), FALSE)
                 ELSE Asked(None, template_values, "template")
            ELSE IF tmpl.kind = "false" THEN Taken(None, FALSE)
                 ELSE IF fn = "narration" THEN Asked(None, <<>>, "history")
                      ELSE Asked(None, <<>>, "none")

\* lines 252-281 (payee) and 288-320 (narration): the value, and whether and
\* how the user was asked; answer is what the user types when asked.  The
\* narration prompt of line 320 takes its suggestions from the history.
HeaderField(fn, flag, tmpl, force_prompts, answer) ==
    LET template_values == _ensure_list(tmpl)
        Asked(prefill, sugg, from) ==
            [prompted |-> TRUE, value |-> Some(answer), prefill |-> prefill,
             suggestions |-> sugg, from |-> from, warned |-> FALSE]
        Taken(v, w) ==
            [prompted |-> FALSE, value |-> v, prefill |-> None,
             suggestions |-> <<>>, from |-> "none", warned |-> w]
    IN IF flag.has
       THEN IF force_prompts THEN Asked(flag, template_values, "template")
            ELSE Taken(flag, template_values # <<>>)
       ELSE IF template_values # <<>>
            THEN IF Len(template_values) = 1 /\ ~force_prompts
                 THEN Taken(Some(template_values[1]), FALSE)
                 ELSE Asked(None, template_values, "template")
            ELSE IF tmpl.kind = "false" THEN Taken(None, FALSE)
                 ELSE IF fn = "narration" THEN Asked(None, <<>>, "history")
                      ELSE Asked(None, <<>>, "none")

MaxListLen == 2
TemplateValues ==
    {Absent, IsFalse} \cup {OneStr(x) : x \in Names \cup {""}}
        \cup {AList(xs) : xs \in UNION {[1..n -> Names] : n \in 0..MaxListLen}}
FlagValues == {None} \cup {Some(x) : x \in Names \cup {""}}

HeaderCalls ==
    [fn : {"payee", "narration"}, flag : FlagValues, tmpl : TemplateValues,
     force_prompts : BOOLEAN]

Header ==
    /\ call.fn \in {"payee", "narration"}
    /\ ret.st = "none"
    /\ \E answer \in Names \cup {""} :
          ret' = [st |-> "ok",
                  out |-> HeaderField(call.fn, call.flag, call.tmpl,
                                      call.force_prompts, answer)]
    /\ UNCHANGED <<call, templateVars, ledgerVars, ioVars, alignVars, splitVars, composeVars>>

InitHeader ==
    /\ call \in HeaderCalls
    /\ ret = [st |-> "none"]
    /\ OnlyCall

NextHeader == Header

SpecHeader == InitHeader /\ [][NextHeader]_vars

(***************************************************************************)
(* Disambiguation (specification SpecResolve).  fuzzy_match is tools.py's; *)
(* the scorer behind it, process.extract, is a black box that returns the  *)
(* candidates in some order.  The resolver that the prompts call           *)
(* (handler.unique_payee, raising DegenerateChoiceException) is not in the *)
(* source; Resolve follows section 4.3 of the specification.  A text is a  *)
(* base string, possibly in capitals, possibly with blanks around it.      *)
(***************************************************************************)
MaxPopulation == 2
MaxLimit == 2

Txt(base, caps, pad) == [base |-> base, caps |-> caps, pad |-> pad]
casefold(t) == [t EXCEPT !.caps = FALSE]
strip(t) == [t EXCEPT !.pad = FALSE]

\* an input of the user, or None
NoInput == [has |-> FALSE, s |-> Txt("", FALSE, FALSE)]
Given(t) == [has |-> TRUE, s |-> t]

\* sequences without repetition, of length n, of elements of S
Orderings(S, n) == {q \in [1..n -> S] : \A i, j \in 1..n : i # j => q[i] # q[j]}

Range(q) == {q[i] : i \in 1..Len(q)}

\* fuzzy_match: the possible results.  limit = 0 stands for limit=None.
fuzzy_match(candidates, search_term, limit) ==
    LET n == IF limit = 0 THEN Len(candidates) ELSE Min(limit, Len(candidates))
    IN IF ~search_term.has
       THEN {Slice(candidates, 1, n)}
       ELSE Orderings(Range(candidates), n)

Resolved(v) == [st |-> "ok", value |-> v, search |-> NoInput, matches |-> <<>>]
Ambiguous(input, matches) ==
    [st |-> "AmbiguousChoice", value |-> Txt("", FALSE, FALSE), search |-> input,
     matches |-> matches]

\* the matches equal to the input, case-insensitive, the input trimmed
ExactOnes(input, matches) ==
    {i \in 1..Len(matches) :
        input.has /\ casefold(strip(input.s)) = casefold(matches[i])}

\* The same without the exact-match short-circuit (a faulty variant).
Resolve_no_short_circuit(input, matches) ==
    IF Len(matches) = 1 THEN Resolved(matches[1])
    ELSE Ambiguous(input, matches)

\* section 4.3, steps 3 to 5
Resolve(input, matches) ==
    IF Len(matches) = 1 THEN Resolved(matches[1])
    ELSE IF ExactOnes(input, matches) # {}
         THEN Resolved(matches[CHOOSE i \in ExactOnes(input, matches) :
                                   \A j \in ExactOnes(input, matches) : i <= j])
         ELSE Ambiguous(input, matches)

Bases == {"Cafe", "Cafe Nero", "Deli"}
Known == {Txt("Cafe", FALSE, FALSE), Txt("Cafe Nero", FALSE, FALSE), Txt("Cafe", TRUE, FALSE)}
Populations == UNION {Orderings(Known, n) : n \in 0..MaxPopulation}
Inputs == {NoInput} \cup {Given(Txt(b, c, p)) : b \in Bases, c \in BOOLEAN, p \in BOOLEAN}

ResolveCalls ==
    [fn : {"resolve"}, input : Inputs, population : Populations, limit : 0..MaxLimit]

DoResolve ==
    /\ call.fn = "resolve"
    /\ ret.st = "none"
    /\ \E ms \in fuzzy_match(call.population, call.input, call.limit) :
          ret' = [st |-> "done", matches |-> ms, out |-> Resolve(call.input, ms)]
    /\ UNCHANGED <<call, templateVars, ledgerVars, ioVars, alignVars, splitVars, composeVars>>

InitResolve ==
    /\ call \in ResolveCalls
    /\ ret = [st |-> "none"]
    /\ OnlyCall

NextResolve == DoResolve

SpecResolve == InitResolve /\ [][NextResolve]_vars

(***************************************************************************)
(* prompt_choice and _prompt_numeric_choice_with_other of cli.py           *)
(* (specification SpecChoice).  The validator is the identity (the         *)
(* default) or the resolver above over a population of at least one known  *)
(* value.                                                                  *)
(***************************************************************************)
MaxRounds == 2
MaxChoices == 2

otherstr == Txt("Other", FALSE, FALSE)

\* what the user may type at click.prompt
Literals == {Txt(b, FALSE, FALSE) : b \in Bases}

\* lines 87-90: 'Other' is appended to the choices when allow_other is set
WithOther(pchoices, allow_other) ==
    IF allow_other THEN Append(pchoices, otherstr) ELSE pchoices

\* _prompt_numeric_choice_with_other(pchoices, msg, allow_other): pick is
\* the number the user chooses when the numbered prompt is shown, lit what
\* the user types after 'Other'
_prompt_numeric_choice_with_other(pchoices, allow_other, pick, lit) ==
    LET shown == WithOther(pchoices, allow_other)
        numbered == Len(shown) # 1
        naccount == IF numbered THEN shown[pick] ELSE shown[1]
        typed == allow_other /\ naccount = otherstr
    IN IF allow_other /\ otherstr \in Range(pchoices)
       THEN [st |-> "Exception", value |-> otherstr, numbered |-> FALSE, typed |-> FALSE]
       ELSE [st |-> "ok", value |-> IF typed THEN lit ELSE naccount,
             numbered |-> numbered, typed |-> typed]

\* the numbers the user can choose at the numbered prompt
Picks(pchoices, allow_other) == 1..Len(WithOther(pchoices, allow_other))

\* validator(choice): the possible outcomes
Validate(validator, population, choice) ==
    IF validator = "identity"
    THEN {[st |-> "ok", value |-> choice.s, search |-> NoInput, matches |-> <<>>]}
    ELSE {Resolve(choice, ms) : ms \in fuzzy_match(population, choice, 0)}

ChoiceLists == UNION {Orderings(Known \cup {otherstr}, n) : n \in 0..MaxChoices}

ChoiceCalls ==
    [fn : {"prompt_choice"}, choice : {NoInput, Given(Txt("Cafe", FALSE, FALSE))},
     has_choices : BOOLEAN, choices : ChoiceLists, allow_other : BOOLEAN,
     validator : {"identity", "resolve"}, population : Populations \ {<<>>}]

\* what one call of _prompt_numeric_choice_with_other leaves in ret
AfterPrompt(r, rounds) ==
    IF r.st # "ok"
    THEN [ret EXCEPT !.st = "raised"]
    ELSE [ret EXCEPT !.st = "validating",
                     !.choice = Given(r.value),
                     !.last = IF r.typed THEN "literal" ELSE "picked",
                     !.numbered = ret.numbered + (IF r.numbered THEN 1 ELSE 0),
                     !.typed = ret.typed + (IF r.typed THEN 1 ELSE 0),
                     !.rounds = rounds]

Running == [st |-> "validating", choice |-> NoInput, last |-> "given",
            numbered |-> 0, typed |-> 0, rounds |-> 0,
            value |-> Txt("", FALSE, FALSE)]

\* prompt_choice, lines 149-153: the choice is asked among the choices given
FirstChoice ==
    /\ call.fn = "prompt_choice"
    /\ ret.st = "none"
    /\ IF call.has_choices
       THEN \E pick \in Picks(call.choices, call.allow_other), lit \in Literals :
               LET r == _prompt_numeric_choice_with_other(call.choices,
                                                          call.allow_other, pick, lit)
               IN ret' = IF r.st # "ok"
                         THEN [Running EXCEPT !.st = "raised"]
                         ELSE [Running EXCEPT
                                  !.choice = Given(r.value),
                                  !.last = IF r.typed THEN "literal" ELSE "picked",
                                  !.numbered = IF r.numbered THEN 1 ELSE 0,
                                  !.typed = IF r.typed THEN 1 ELSE 0]
       ELSE ret' = [Running EXCEPT !.choice = call.choice]
    /\ UNCHANGED <<call, templateVars, ledgerVars, ioVars, alignVars, splitVars, composeVars>>

\* prompt_choice, lines 154-166: one pass of the inner loop
ValidateChoice ==
    /\ call.fn = "prompt_choice"
    /\ ret.st = "validating"
    /\ \E v \in Validate(call.validator, call.population, ret.choice) :
          IF v.st = "ok"
          THEN ret' = [ret EXCEPT !.st = "returned", !.value = v.value]
          ELSE /\ ret.rounds < MaxRounds
               /\ IF ret.choice.has
                  THEN \E pick \in Picks(v.matches, call.allow_other), lit \in Literals :
                          ret' = AfterPrompt(
                                    _prompt_numeric_choice_with_other(
                                        v.matches, call.allow_other, pick, lit),
                                    ret.rounds + 1)
                  ELSE \E lit \in Literals :
                          ret' = [ret EXCEPT !.choice = Given(lit), !.last = "free",
                                             !.rounds = ret.rounds + 1]
    /\ UNCHANGED <<call, templateVars, ledgerVars, ioVars, alignVars, splitVars, composeVars>>

InitChoice ==
    /\ call \in ChoiceCalls
    /\ ret = [st |-> "none"]
    /\ OnlyCall

NextChoice == FirstChoice \/ ValidateChoice

SpecChoice == InitChoice /\ [][NextChoice]_vars

(***************************************************************************)
(* AccountHandler.check_date_order (specification SpecCheck): the command  *)
(* 'check transaction-dates' on a ledger in any order.                     *)
(***************************************************************************)
MaxCheckEntries == 3

CheckLedgers ==
    {Render(es, b, 1) :
        es \in UNION {[1..n -> Dates \X {"plain", "cmt"}] : n \in 0..MaxCheckEntries},
        b \in BOOLEAN}

\* an item of the error: 'Entry on line {lineno} ...: {date} < {last_date}'
DateError(t, last) == [lineno |-> t.lineno, date |-> t.date, last_date |-> last.date]

\* The same with the dates compared instead of the line numbers (a faulty
\* variant).
RECURSIVE DateErrors_by_date(_, _)
DateErrors_by_date(txns, i) ==
    IF i > Len(txns) THEN <<>>
    ELSE (IF i > 1 /\ txns[i].date < txns[i - 1].date
          THEN <<DateError(txns[i], txns[i - 1])>> ELSE <<>>)
         \o DateErrors_by_date(txns, i + 1)

\* lines 260-271: the loop over self.transactions, from the i-th on
RECURSIVE DateErrors(_, _)
DateErrors(txns, i) ==
    IF i > Len(txns) THEN <<>>
    ELSE (IF i > 1 /\ txns[i].lineno < txns[i - 1].lineno
          THEN <<DateError(txns[i], txns[i - 1])>> ELSE <<>>)
         \o DateErrors(txns, i + 1)

check_date_order(txns) ==
    LET errors == DateErrors(txns, 1)
    IN [st |-> IF errors # <<>> THEN "ValueError" ELSE "ok", errors |-> errors]

CheckDateOrder ==
    /\ call.fn = "check_date_order"
    /\ ret.st = "none"
    /\ cache' = LoadCache
    /\ ret' = check_date_order(LoadCache.txns)
    /\ UNCHANGED <<file, txn, insert_lineno, old, adds, outcome, call, templateVars,
                   ioVars, alignVars, splitVars, composeVars>>

InitCheck ==
    /\ file \in CheckLedgers
    /\ cache = [set |-> FALSE, txns |-> <<>>]
    /\ txn = NoTxn
    /\ insert_lineno = 0
    /\ old = <<>>
    /\ adds = 0
    /\ outcome = "none"
    /\ call = [fn |-> "check_date_order"]
    /\ ret = [st |-> "none"]
    /\ NoTemplates
    /\ InitIO
    /\ NoAlign
    /\ NoSplit
    /\ NoCompose

NextCheck == CheckDateOrder

SpecCheck == InitCheck /\ [][NextCheck]_vars

(***************************************************************************)
(* AccountHandler.format_transactions (specification SpecFormat).  text is *)
(* the contents of the transactions file, backup_file those of its sibling *)
(* with the suffix '.backup', aligned what the aligner returned.  The      *)
(* aligner called is beancount's; format.py is this repository's copy.     *)
(***************************************************************************)
\* Path.read_text: the file is opened in text mode, which translates the
\* line ends '\r\n' and '\r' to '\n'
RECURSIVE read_text(_)
read_text(s) ==
    IF s = <<>> THEN <<>>
    ELSE IF s[1] = CR
         THEN IF Len(s) > 1 /\ s[2] = NL
              THEN <<NL>> \o read_text(Slice(s, 3, Len(s)))
              ELSE <<NL>> \o read_text(Tail(s))
         ELSE <<s[1]>> \o read_text(Tail(s))

\* Path.write_text, on a system whose line end is '\n'
write_text(s) == s

\* lines 282-285: the file is written after the backup, when one is asked
WriteReady(st, backup) == st = "backed" \/ (st = "aligned" /\ ~backup)

\* lines 279-280: the file is read and aligned; an exception of the aligner
\* leaves the method
FormatAlign ==
    /\ call.fn = "format_transactions"
    /\ ret.st = "none"
    /\ aligned' = align_beancount(read_text(text), params.prefix_width,
                                  params.num_width, params.currency_column,
                                  params.indent_width)
    /\ ret' = [st |-> IF aligned'.st = "ok" THEN "aligned" ELSE "raised",
               original |-> read_text(text)]
    /\ UNCHANGED <<text, params, passes, backup_file, call, templateVars,
                   ledgerVars, ioVars, splitVars, composeVars>>

\* lines 282-283: the backup
FormatBackup ==
    /\ call.fn = "format_transactions"
    /\ ret.st = "aligned"
    /\ call.backup
    /\ backup_file' = [exists |-> TRUE, s |-> write_text(ret.original)]
    /\ ret' = [ret EXCEPT !.st = "backed"]
    /\ UNCHANGED <<text, params, aligned, passes, call, templateVars,
                   ledgerVars, ioVars, splitVars, composeVars>>

\* line 285: the file is overwritten
FormatWrite ==
    /\ call.fn = "format_transactions"
    /\ WriteReady(ret.st, call.backup)
    /\ text' = write_text(aligned.out)
    /\ ret' = [ret EXCEPT !.st = "done"]
    /\ UNCHANGED <<params, aligned, passes, backup_file, call, templateVars,
                   ledgerVars, ioVars, splitVars, composeVars>>

InitFormat ==
    /\ text \in Texts
    /\ params \in ParamSets
    /\ aligned = [st |-> "none", out |-> <<>>]
    /\ passes = 0
    /\ backup_file \in {[exists |-> FALSE, s |-> <<>>], [exists |-> TRUE, s |-> <<"x", NL>>]}
    /\ call \in [fn : {"format_transactions"}, backup : BOOLEAN]
    /\ ret = [st |-> "none"]
    /\ NoTemplates
    /\ NoLedger
    /\ InitIO
    /\ NoSplit
    /\ NoCompose

NextFormat == FormatAlign \/ FormatBackup \/ FormatWrite

SpecFormat == InitFormat /\ [][NextFormat]_vars

(***************************************************************************)
(* The template store (specification SpecTemplates).  A template is a      *)
(* mapping from keys to values; the file lists the templates by label.     *)
(***************************************************************************)
MaxTemplateCalls == 3
MaxTemplates == 2

Labels == {"rent", "food"}
TemplateKeys == {"payee", "label"}
TemplateTexts == {"Shop", "rent"}

\* template[key] = value
SetKey(t, key, value) ==
    [k \in DOMAIN t \cup {key} |-> IF k = key THEN value ELSE t[k]]

\* the index of the label in the store, 0 for a KeyError
IndexOf(store, label) ==
    IF \E i \in 1..Len(store) : store[i].label = label
    THEN CHOOSE i \in 1..Len(store) : store[i].label = label
    ELSE 0

\* AccountHandler.templates: a cached_property, read from the file on the
\* first use
LoadTemplates == IF templates.set THEN templates ELSE [set |-> TRUE, store |-> template_file]

\* AccountHandler.get_template: the template of the store itself gets the
\* key 'label' and is returned
get_template(store, label) ==
    LET i == IndexOf(store, label)
    IN IF i = 0
       THEN [st |-> "TemplateNotFoundError", store |-> store]
       ELSE [st |-> "ok",
             store |-> [store EXCEPT ![i].t = SetKey(@, "label", label)],
             template |-> SetKey(store[i].t, "label", label)]

TemplateCount == IF call.fn = "none" THEN 0 ELSE call.n

GetTemplate ==
    \E label \in Labels :
        LET r == get_template(LoadTemplates.store, label)
        IN /\ TemplateCount < MaxTemplateCalls
           /\ call' = [fn |-> "get_template", label |-> label, n |-> TemplateCount + 1]
           /\ templates' = [set |-> TRUE, store |-> r.store]
           /\ ret' = [st |-> r.st]
           /\ UNCHANGED <<template_file, ledgerVars, ioVars, alignVars, splitVars,
                          composeVars>>

\* AccountHandler.has_template: get_template, and whether it raised
HasTemplate ==
    \E label \in Labels :
        LET r == get_template(LoadTemplates.store, label)
        IN /\ TemplateCount < MaxTemplateCalls
           /\ call' = [fn |-> "has_template", label |-> label, n |-> TemplateCount + 1]
           /\ templates' = [set |-> TRUE, store |-> r.store]
           /\ ret' = [st |-> IF r.st = "ok" THEN "True" ELSE "False"]
           /\ UNCHANGED <<template_file, ledgerVars, ioVars, alignVars, splitVars,
                          composeVars>>

\* AccountHandler.search_templates: fuzzy_match over the labels
SearchTemplates ==
    \E term \in {NoInput, Given(Txt("Cafe", FALSE, FALSE))}, limit \in 0..1 :
        LET store == LoadTemplates.store
            keys == [i \in 1..Len(store) |-> store[i].label]
        IN /\ TemplateCount < MaxTemplateCalls
           /\ call' = [fn |-> "search_templates", label |-> "", n |-> TemplateCount + 1]
           /\ templates' = LoadTemplates
           /\ \E found \in fuzzy_match(keys, term, limit) :
                 ret' = [st |-> "found", found |-> found]
           /\ UNCHANGED <<template_file, ledgerVars, ioVars, alignVars, splitVars,
                          composeVars>>

TemplateBodies == UNION {[D -> TemplateTexts] : D \in SUBSET TemplateKeys}

TemplateFiles ==
    UNION {{[i \in 1..n |-> [label |-> ls[i], t |-> ts[i]]] :
               ls \in Orderings(Labels, n), ts \in [1..n -> TemplateBodies]} :
           n \in 0..MaxTemplates}

InitTemplates ==
    /\ template_file \in TemplateFiles
    /\ templates = [set |-> FALSE, store |-> <<>>]
    /\ call = [fn |-> "none"]
    /\ ret = [st |-> "none"]
    /\ NoLedger
    /\ InitIO
    /\ NoAlign
    /\ NoSplit
    /\ NoCompose

NextTemplates == GetTemplate \/ HasTemplate \/ SearchTemplates

SpecTemplates == InitTemplates /\ [][NextTemplates]_vars

(***************************************************************************)
(* get_valid_date of cli.py (specification SpecDate).  maya.when is a      *)
(* black box that parses some strings and raises ValueError on the others. *)
(***************************************************************************)
MaxDateTries == 8

DateStrings == {"2020-01-02", "today", "3 days ago", "not a date", "??", ""}

\* click.prompt(msg, default="today"): an empty answer gives the default
DateAnswers == DateStrings \ {""}

\* maya.when(dateval) returns a date
Parses(s) == s \in {"2020-01-02", "today", "3 days ago"}

\* One pass of the loop of lines 73-81: the prompt is made only while
\* dateval is None; on ValueError the loop continues with dateval as it is.
DateLoop ==
    /\ call.fn = "get_valid_date"
    /\ ret.st = "running"
    /\ ret.tries < MaxDateTries
    /\ \E input \in DateAnswers :
          LET asked == ~ret.dateval.has
              dateval == IF asked THEN Some(input) ELSE ret.dateval
          IN ret' = [st |-> IF Parses(dateval.s) THEN "returned" ELSE "running",
                     dateval |-> dateval,
                     prompts |-> ret.prompts + (IF asked THEN 1 ELSE 0),
                     tries |-> ret.tries + 1]
    /\ UNCHANGED <<call, templateVars, ledgerVars, ioVars, alignVars, splitVars,
                   composeVars>>

InitDate ==
    /\ call \in [fn : {"get_valid_date"},
                 date : {None} \cup {Some(d) : d \in DateStrings},
                 msg : {"Enter transaction date", "Date"}]
    /\ ret = [st |-> "running", dateval |-> call.date, prompts |-> 0, tries |-> 0]
    /\ OnlyCall

NextDate == DateLoop

SpecDate == InitDate /\ [][NextDate]_vars

(***************************************************************************)
(* AccountHandler.filter_accounts and ranked_set (specification            *)
(* SpecFilter).  A transaction of the history is its payee and the         *)
(* accounts of its postings; lineno = 0 stands for lineno=None.            *)
(***************************************************************************)
MaxHistory == 3
MaxPostings == 2

\* ranked_set: the distinct items, by descending number of appearances; the
\* sort is stable, so items that appear equally often stay in the order of
\* their first appearance (the order of the Counter's keys)
Appearances(items, a) == Cardinality({i \in 1..Len(items) : items[i] = a})

FirstAt(items, a) == CHOOSE i \in 1..Len(items) : items[i] = a /\ \A j \in 1..(i - 1) : items[j] # a

RankedBefore(items, a, b) ==
    \/ Appearances(items, a) > Appearances(items, b)
    \/ Appearances(items, a) = Appearances(items, b) /\ FirstAt(items, a) < FirstAt(items, b)

RECURSIVE RankSort(_, _)
RankSort(items, S) ==
    IF S = {} THEN <<>>
    ELSE LET a == CHOOSE x \in S : \A y \in S \ {x} : RankedBefore(items, x, y)
         IN <<a>> \o RankSort(items, S \ {a})

ranked_set(items) == RankSort(items, Range(items))

\* filter_transactions: the transactions that match every filter given
filter_transactions(txns, payee) ==
    LET Matches(t) == ~payee.has \/ t.payee = payee.s
    IN SelectSeq(txns, Matches)

\* filter_accounts: postings[lineno - 1] of every matching transaction, which
\* raises IndexError on a transaction with fewer postings
filter_accounts(txns, k, payee) ==
    LET found == filter_transactions(txns, payee)
    IN IF k # 0 /\ \E i \in 1..Len(found) : Len(found[i].postings) < k
       THEN [st |-> "IndexError", accounts |-> <<>>]
       ELSE [st |-> "ok",
             accounts |-> ranked_set(Concat([i \in 1..Len(found) |->
                             IF k = 0 THEN found[i].postings
                             ELSE <<found[i].postings[k]>>]))]

Histories ==
    UNION {[1..n -> [payee : Names,
                     postings : UNION {[1..q -> Accounts] : q \in 1..MaxPostings}]] :
           n \in 0..MaxHistory}

FilterCalls ==
    [fn : {"filter_accounts"}, txns : Histories, lineno : 0..(MaxPostings + 1),
     payee : {None} \cup {Some(x) : x \in Names}]

FilterAccounts ==
    /\ call.fn = "filter_accounts"
    /\ ret.st = "none"
    /\ ret' = filter_accounts(call.txns, call.lineno, call.payee)
    /\ UNCHANGED <<call, templateVars, ledgerVars, ioVars, alignVars, splitVars,
                   composeVars>>

InitFilter ==
    /\ call \in FilterCalls
    /\ ret = [st |-> "none"]
    /\ OnlyCall

NextFilter == FilterAccounts

SpecFilter == InitFilter /\ [][NextFilter]_vars

(***************************************************************************)
(* Properties.                                                             *)
(***************************************************************************)
\* the lines of entry id in f, and whether entry x lies inside entry e
LinesOf(f, id) == {i \in 1..Len(f) : f[i].kind # "blank" /\ f[i].id = id}

Ids(f) == {f[i].id : i \in HdrIdx(f)}

Inside(f, x, e) ==
    \E i, j, k \in 1..Len(f) :
        /\ i < j /\ j < k
        /\ i \in LinesOf(f, e) /\ j \in LinesOf(f, x) /\ k \in LinesOf(f, e)

Inserted(f) == {x \in Ids(f) : x > MaxEntries}

\* The step-by-step add_entry ends with the content the one-step AddEntry
\* writes.
IOAgreesWithAddEntry ==
    (pc = "idle" /\ outcome = "ok") => file = NewContent(old, insert_lineno, txn)

\* every entry of f occupies as many lines as its serialised form
AsPrinted(f) ==
    \A i \in HdrIdx(f) : Cardinality({j \in 1..Len(f) : f[j].id = f[i].id}) = f[i].ser
                         /\ \A j \in 1..Len(f) : f[j].kind # "cmt"

\* C1: after any sequence of add_entry calls on one AccountHandler the
\* entries of the file are in non-decreasing date order by line position and
\* no inserted entry lies inside the line range of another entry.  Stated
\* for the ledgers whose entries are written as the printer writes them,
\* where each single insertion line is computed right (C3 is about the
\* others).
C1_OrderKept ==
    AsPrinted(file) =>
        /\ DateOrdered(file)
        /\ \A x \in Inserted(file) : \A e \in Ids(file) \ {x} : ~Inside(file, x, e)

\* the last line of the text of the last entry of f (0 when f has none)
LastEntryLine(f) ==
    LET S == {i \in 1..Len(f) : f[i].kind # "blank"}
    IN IF S = {} THEN 0 ELSE CHOOSE i \in S : \A j \in S : j <= i

NoneLater(f, t) == \A i \in HdrIdx(f) : f[i].date <= t.date

\* C3: when the new date is later than or equal to every existing date the
\* entry is written right after the last line of the last existing entry:
\* not inside that entry and not past a gap.
C3_AppendedAfterLastEntry ==
    (outcome = "ok" /\ HdrIdx(old) # {} /\ NoneLater(old, txn)) =>
        LET e == LastEntryLine(old)
        IN file = Slice(old, 1, e) \o serialise_entry(txn) \o Slice(old, e + 1, Len(old))

C5_OldOrNew ==
    outcome # "none" =>
        /\ file = old \/ file = NewContent(old, insert_lineno, txn)
        /\ outcome = "raised" => file = old

\* f is o with the lines of t inserted after line k of o
InsertedAfter(o, f, t, k) ==
    f = Slice(o, 1, k) \o serialise_entry(t) \o Slice(o, k + 1, Len(o))

\* f is o with t inserted after every entry dated t.date or earlier and
\* before every later entry (at the first line of the first later one).
PlacedByDate(o, f, t) ==
    \E k \in 0..Len(o) :
        /\ InsertedAfter(o, f, t, k)
        /\ \A i \in HdrIdx(o) :
              IF o[i].date > t.date
              THEN i > k
              ELSE \A j \in LinesOf(o, o[i].id) : j <= k
        /\ \A i \in HdrIdx(o) :
              (o[i].date > t.date /\ \A j \in HdrIdx(o) : o[j].date > t.date => i <= j)
                  => k + 1 = i

\* what AccountHandler.add_entry makes of ledger o, freshly loaded
HandlerPlaces(o, t) ==
    LET r == _new_transaction_lineno(transactions(o), t)
    IN r.ok /\ PlacedByDate(o, NewContent(o, r.lineno, t), t)

\* C2: on a date-ordered ledger (with at least one entry) the new
\* transaction is inserted at the start line of the first entry with a
\* strictly later date, after every entry with an equal or earlier date,
\* and the existing lines keep their order; for TransactionFile.add (the
\* step just taken) and for AccountHandler._new_transaction_lineno (on the
\* same ledger).
C2_InsertionPoint ==
    (outcome # "none" /\ DateOrdered(old) /\ HdrIdx(old) # {}) =>
        /\ outcome = "ok"
        /\ PlacedByDate(old, file, txn)
        /\ HandlerPlaces(old, txn)

\* The part of C2 that the code keeps: when some entry has a later date,
\* _new_transaction_lineno is the start line of the first such entry.
HandlerPointWhenLater ==
    (outcome # "none" /\ DateOrdered(old) /\ ~NoneLater(old, txn)) => HandlerPlaces(old, txn)

\* ... and TransactionFile.add places the entry by date whenever it returns
TFPlacesWhenItReturns ==
    (outcome = "ok" /\ DateOrdered(old)) => PlacedByDate(old, file, txn)

\* collapse the runs of spaces, tabs and newlines to one space and trim the
\* white space at the ends
RECURSIVE TrimLeft(_)
TrimLeft(s) == IF s # <<>> /\ s[1] \in ReSpace THEN TrimLeft(Tail(s)) ELSE s

RECURSIVE TrimRight(_)
TrimRight(s) == IF s # <<>> /\ s[Len(s)] \in ReSpace THEN TrimRight(Slice(s, 1, Len(s) - 1)) ELSE s

collapse_whitespace(s) == TrimRight(TrimLeft(CollapseBlanks(s)))

\* C6: alignment changes white space only: the input and the output of
\* align_beancount collapse to the same string, for every text and every
\* setting of the parameters.
C6_WhitespaceOnly ==
    aligned.st = "ok" => collapse_whitespace(text) = collapse_whitespace(aligned.out)

\* C6 holds of the texts whose only white space is space, tab and "\n"
WhitespaceOnlyOnPlainBlanks ==
    (aligned.st = "ok" /\ \A i \in 1..Len(text) : text[i] \notin {NBSP, CR})
        => collapse_whitespace(text) = collapse_whitespace(aligned.out)

\* C7: alignment is idempotent: aligning the result of align_beancount again,
\* with the same parameters, returns it unchanged, in the currency-column
\* mode and in the max-width mode.
C7_Idempotent ==
    passes = 2 => (aligned.st = "ok" /\ aligned.out = text)

\* C7 holds in the currency-column mode, and in the max-width mode when
\* prefix_width is given
IdempotentWithFixedPrefixWidth ==
    (passes = 2 /\ (params.currency_column # 0 \/ params.prefix_width # 0))
        => (aligned.st = "ok" /\ aligned.out = text)

\* a split that is a bare number: a float, or a string holding one number
IsBareNumber(s) == s.kind = "float" \/ (Len(s.toks) = 1 /\ s.toks[1].k = "num")
BareValue(s) == IF s.kind = "float" THEN s.v ELSE s.toks[1].v

\* a split of the form '<amount> <currency>'
IsAmount(s) ==
    s.kind = "str" /\ Len(s.toks) = 2 /\ s.toks[1].k = "num" /\ s.toks[2].k = "word"

\* C8: parse_split returns fraction * total for a number in [-1, 1], the
\* amount (whatever the total) for '<amount> <currency>' in the currency of
\* the total, and fails when the currency differs.
C8_SplitValue ==
    result.st # "none" =>
        /\ (IsBareNumber(split) /\ -Unit <= BareValue(split) /\ BareValue(split) <= Unit)
              => (result.st = "ok" /\ result.value * Unit = BareValue(split) * total)
        /\ (IsAmount(split) /\ split.toks[2].w = total_currency)
              => (result.st = "ok" /\ result.value = split.toks[1].v)
        /\ (IsAmount(split) /\ split.toks[2].w # total_currency)
              => result.st # "ok"

\* half of a non-zero total was computed
C8_Witness ==
    /\ result.st = "ok"
    /\ IsBareNumber(split)
    /\ BareValue(split) = -500
    /\ total = 100000
    /\ result.value = -50000

\* an amount in another currency was refused
C8_WitnessCurrency ==
    /\ result.st = "ValueError"
    /\ IsAmount(split)
    /\ split.toks[2].w # total_currency

\* C9: parse_fraction accepts exactly the numbers of [-1, 1], and for a bare
\* number outside it the split computation fails with the error 'Fraction
\* must be between -1 and 1'.
C9_FractionError ==
    result.st # "none" =>
        /\ IsBareNumber(split) =>
              (valid_fraction(split) <=> (-Unit <= BareValue(split) /\ BareValue(split) <= Unit))
        /\ (IsBareNumber(split) /\ ~(-Unit <= BareValue(split) /\ BareValue(split) <= Unit))
              => (result.st = "ValueError" /\ result.msg = "Fraction must be between -1 and 1")

\* The part of C9 that the code keeps: parse_fraction accepts exactly the
\* numbers of [-1, 1], both ends included, and a bare number outside is
\* refused by parse_split.
FractionBounds ==
    result.st # "none" =>
        /\ IsBareNumber(split) =>
              (parse_fraction(split).st = "ok"
                  <=> (-Unit <= BareValue(split) /\ BareValue(split) <= Unit))
        /\ (IsBareNumber(split) /\ parse_fraction(split).st # "ok") => result.st # "ok"

\* C10: when the draft is shown the transaction has at least 2 postings,
\* whatever the template and on the path without a template.
C10_TwoPostings == cpc = "draft" => Len(postings) >= 2

\* The same for the templates with at least one line, and without a
\* template, where it holds.
TwoPostingsUnlessEmptyList ==
    (cpc = "draft" /\ ~(template.has_lines /\ template.lines = <<>>))
        => Len(postings) >= 2

\* 'Add another line?' is not asked before two lines were entered: without a
\* template the draft is not shown before line 2 was added.
TwoLinesBeforeDraft ==
    (cpc \in {"show", "draft"} /\ ~template.has_lines) => lineno > 2

\* C11: in the add command the ledger is written, and add_entry called,
\* only by the step that follows a confirmed 'Save?' and never with dry_run
\* set; a declined confirmation leaves the ledger as it was and gives a
\* non-zero exit status.
C11_WriteOnlyOnSave ==
    [][/\ (file' # file \/ written' # written)
            => (cpc = "draft" /\ cpc' \in {"saved", "raised"} /\ ~opts.dry_run)
       /\ cpc' = "declined" => (exit_code' # 0 /\ file' = file /\ written' = written)]_vars

\* a transaction was saved: add_entry was called once and changed the file
C11_Witness ==
    /\ cpc = "saved"
    /\ ~opts.dry_run
    /\ written = 1
    /\ file # old
    /\ Len(postings) >= 2

\* a confirmed dry run: 'Saved!' without any write
C11_WitnessDryRun == cpc = "saved" /\ opts.dry_run /\ written = 0 /\ file \in ComposeLedgers

\* the value of the split of the examined call, as parse_split computes it
ComputedSplit ==
    parse_split(IF call.sp.prompt_value THEN call.ans.split ELSE call.sp.value,
                call.tvalue, call.tcurrency)

\* C12: _add_splitdata emits no posting and a warning when the computed
\* value of the split is zero, and exactly one posting, on the split account
\* and in the currency of the total, when it is not zero.
C12_ZeroSplitDropped ==
    (call.fn = "_add_splitdata" /\ ret.st = "ok") =>
        /\ ComputedSplit.st = "ok"
        /\ ComputedSplit.value = 0 => (ret.new = <<>> /\ ret.warned)
        /\ ComputedSplit.value # 0 =>
              /\ Len(ret.new) = 1
              /\ ret.new[1].account = call.ans.account
              /\ ret.new[1].currency = call.tcurrency
              /\ ret.new[1].hasNumber
              /\ ~ret.warned

\* a split of zero of a non-zero value was dropped with the warning
C12_Witness ==
    /\ call.fn = "_add_splitdata"
    /\ ret.st = "ok"
    /\ call.tvalue # 0
    /\ ComputedSplit.value = 0
    /\ ret.new = <<>>
    /\ ret.warned

\* a non-zero split gave its posting
C12_WitnessPosting ==
    /\ call.fn = "_add_splitdata"
    /\ ret.st = "ok"
    /\ ComputedSplit.value = -5002
    /\ Len(ret.new) = 1

Abs(x) == IF x < 0 THEN -x ELSE x

\* C13: the amount stored in a posting, of a line or of a split, is the
\* value as entered or computed, not rounded.
C13_StoredUnrounded ==
    \A i \in 1..Len(postings) :
        postings[i].hasNumber => postings[i].number = postings[i].exact

\* C13 as the code has it: the amount stored in a posting is the entered or
\* computed value rounded to 2 decimal places, the amount that is displayed.
C13_StoredRounded ==
    \A i \in 1..Len(postings) :
        postings[i].hasNumber =>
            /\ postings[i].number % 10 = 0
            /\ Abs(postings[i].number - postings[i].exact) < 5

\* the draft holds a line and a split whose amounts were rounded
C13_Witness ==
    /\ cpc = "draft"
    /\ \E i, j \in 1..Len(postings) :
          /\ postings[i].of = "line"
          /\ postings[i].exact = 10004
          /\ postings[i].number = 10000
          /\ postings[j].of = "split"
          /\ postings[j].exact = -5002
          /\ postings[j].number = -5000

\* C14: without a command-line value the payee or narration follows the
\* template: False gives no value and no prompt; a single string or
\* one-item list is taken without a prompt unless force_prompts is set; a
\* list of two or more gives a prompt with the list as suggestions; an
\* absent key gives a prompt without suggestions of the template.  A
\* command-line value without force_prompts is taken as it is, without a
\* prompt, whatever the template holds.
C14_TriState ==
    (call.fn \in {"payee", "narration"} /\ ret.st = "ok") =>
        LET o == ret.out
            t == call.tmpl
            single == (t.kind = "str") \/ (t.kind = "list" /\ Len(t.xs) = 1)
            only == IF t.kind = "str" THEN t.s ELSE t.xs[1]
        IN /\ (~call.flag.has /\ t.kind = "false") => (~o.prompted /\ ~o.value.has)
           /\ (~call.flag.has /\ single /\ ~call.force_prompts)
                 => (~o.prompted /\ o.value = [has |-> TRUE, s |-> only])
           /\ (~call.flag.has /\ single /\ call.force_prompts)
                 => (o.prompted /\ o.suggestions = <<only>>)
           /\ (~call.flag.has /\ t.kind = "list" /\ Len(t.xs) >= 2)
                 => (o.prompted /\ o.suggestions = t.xs /\ o.from = "template")
           /\ (~call.flag.has /\ t.kind = "absent")
                 => (o.prompted /\ o.from # "template" /\ ~o.prefill.has)
           /\ (call.flag.has /\ ~call.force_prompts)
                 => (~o.prompted /\ o.value = call.flag)

\* an empty command-line value was taken over a two-item list of the
\* template, without a prompt
C14_Witness ==
    /\ call.fn = "payee"
    /\ ret.st = "ok"
    /\ call.flag = [has |-> TRUE, s |-> ""]
    /\ ~call.force_prompts
    /\ Len(call.tmpl.xs) = 2
    /\ ~ret.out.prompted
    /\ ret.out.value = call.flag

\* False in the template gave no narration and no prompt, with force_prompts
C14_WitnessFalse ==
    /\ call.fn = "narration"
    /\ ret.st = "ok"
    /\ ~call.flag.has
    /\ call.tmpl.kind = "false"
    /\ call.force_prompts
    /\ ~ret.out.prompted
    /\ ~ret.out.value.has

\* C15: with exactly one fuzzy match the resolver returns it; with several,
\* and the input (trimmed, case-insensitive) equal to the text of one of
\* them, it returns such a match; otherwise it signals the ambiguity with
\* the matches.
C15_Resolution ==
    (call.fn = "resolve" /\ ret.st = "done") =>
        LET ms == ret.matches
            o == ret.out
            same(i) == /\ call.input.has
                       /\ [call.input.s EXCEPT !.caps = FALSE, !.pad = FALSE]
                              = [ms[i] EXCEPT !.caps = FALSE]
        IN /\ Len(ms) = 1 => (o.st = "ok" /\ o.value = ms[1])
           /\ (Len(ms) > 1 /\ \E i \in 1..Len(ms) : same(i))
                 => (o.st = "ok" /\ \E i \in 1..Len(ms) : same(i) /\ o.value = ms[i])
           /\ (Len(ms) > 1 /\ ~\E i \in 1..Len(ms) : same(i))
                 => (o.st = "AmbiguousChoice" /\ o.matches = ms /\ o.search = call.input)

\* two matches, and the input in capitals with blanks around it equal to
\* the second: that match is returned
C15_Witness ==
    /\ call.fn = "resolve"
    /\ ret.st = "done"
    /\ Len(ret.matches) = 2
    /\ call.input = [has |-> TRUE, s |-> [base |-> "Cafe Nero", caps |-> TRUE, pad |-> TRUE]]
    /\ ret.matches[2].base = "Cafe Nero"
    /\ ret.out.st = "ok"
    /\ ret.out.value = ret.matches[2]

\* C16: prompt_choice given a choices list of exactly one entry accepts that
\* entry without showing the numbered prompt, whatever allow_other is.
C16_SingleChoiceAccepted ==
    (call.fn = "prompt_choice" /\ ret.st \in {"validating", "raised"}
        /\ call.has_choices /\ Len(call.choices) = 1 /\ ret.rounds = 0) =>
            /\ ret.st = "validating"
            /\ ret.numbered = 0
            /\ ret.choice = [has |-> TRUE, s |-> call.choices[1]]

\* The part of C16 that the code keeps: with allow_other unset the only
\* entry is accepted without a prompt.
SingleChoiceWithoutOther ==
    (call.fn = "prompt_choice" /\ ret.st \in {"validating", "raised"}
        /\ call.has_choices /\ Len(call.choices) = 1 /\ ret.rounds = 0
        /\ ~call.allow_other) =>
            /\ ret.st = "validating"
            /\ ret.numbered = 0
            /\ ret.choice = [has |-> TRUE, s |-> call.choices[1]]

\* C17: when the user picked 'Other' and typed a literal that is not in the
\* population, the next step of prompt_choice returns that literal as typed,
\* without a further prompt.
C17_LiteralAccepted ==
    [][(/\ call.fn = "prompt_choice"
        /\ ret.st = "validating"
        /\ ret.last = "literal"
        /\ ret.choice.s \notin {call.population[i] : i \in 1..Len(call.population)})
          => (ret'.st = "returned" /\ ret'.value = ret.choice.s)]_vars

\* The part of C17 that the code keeps: the call returns only a value that
\* the validator returned for the current choice.
ReturnsValidated ==
    [][(call.fn = "prompt_choice" /\ ret.st = "validating" /\ ret'.st = "returned")
          => \E v \in Validate(call.validator, call.population, ret.choice) :
                v.st = "ok" /\ ret'.value = v.value]_vars

\* the headers of a file in the order of the loader: by date, then by line
ByDateThenLine(f, i, j) ==
    f[i].date < f[j].date \/ (f[i].date = f[j].date /\ i < j)

\* the header that comes right before header j in that order, if any
Predecessors(f, j) ==
    {i \in HdrIdx(f) :
        /\ ByDateThenLine(f, i, j)
        /\ ~\E k \in HdrIdx(f) : ByDateThenLine(f, i, k) /\ ByDateThenLine(f, k, j)}

\* the lines of the transactions that start above their predecessor
OutOfOrder(f) == {j \in HdrIdx(f) : \E i \in Predecessors(f, j) : j < i}

\* C18: check_date_order raises an error with one item (line and date) for
\* each transaction whose line is lower than that of its predecessor in the
\* order of the loader, raises nothing exactly when the transactions of the
\* file are in non-decreasing date order by line, and never writes the file.
C18_DateOrderReport ==
    /\ [](ret.st \in {"ok", "ValueError"} =>
            /\ (ret.st = "ok") <=> DateOrdered(file)
            /\ Len(ret.errors) = Cardinality(OutOfOrder(file))
            /\ \A j \in OutOfOrder(file) :
                  \E e \in 1..Len(ret.errors) :
                      ret.errors[e].lineno = j /\ ret.errors[e].date = file[j].date)
    /\ [][file' = file]_vars

\* a file with three entries where two start above their predecessor: two
\* items are reported
C18_Witness ==
    /\ call.fn = "check_date_order"
    /\ ret.st = "ValueError"
    /\ Len(ret.errors) = 2
    /\ ~DateOrdered(file)

\* C19: with backup set, format_transactions has written the original text
\* as it was to the .backup file when it overwrites the transactions file,
\* which it overwrites with the aligned text; when the alignment fails,
\* neither file is changed.
C19_BackupFirst ==
    [][/\ (call.fn = "format_transactions" /\ text' # text) =>
             /\ text' = aligned.out
             /\ call.backup => backup_file = [exists |-> TRUE, s |-> text]
       /\ (call.fn = "format_transactions" /\ ret.st = "none" /\ ret'.st = "raised") =>
             (text' = text /\ backup_file' = backup_file)
       /\ (call.fn = "format_transactions" /\ ret.st = "raised") =>
             (text' = text /\ backup_file' = backup_file)]_vars

\* The part of C19 that the code keeps: the backup is written before the
\* file is overwritten and holds the text as read_text returned it, which
\* is the original when its line ends are '\n'; a failed alignment changes
\* neither file.
BackupOfTextAsRead ==
    [][/\ (call.fn = "format_transactions" /\ text' # text) =>
             /\ text' = aligned.out
             /\ call.backup => backup_file = [exists |-> TRUE, s |-> ret.original]
             /\ (call.backup /\ \A i \in 1..Len(text) : text[i] # CR)
                   => backup_file.s = text
       /\ (call.fn = "format_transactions" /\ ret.st = "none" /\ ret'.st = "raised") =>
             (text' = text /\ backup_file' = backup_file)
       /\ (call.fn = "format_transactions" /\ ret.st = "raised") =>
             (text' = text /\ backup_file' = backup_file)]_vars

\* C20: when the ledger holds no transaction, the insertion point is
\* computed and add_entry writes the entry into the file; the call does not
\* fail.
C20_EmptyLedgerAdd ==
    (adds > 0 /\ transactions(old) = <<>>) =>
        /\ outcome = "ok"
        /\ \E i \in 1..Len(file) : file[i].kind = "hdr" /\ file[i].id = txn.id

\* What the code does instead: on a ledger without transactions add_entry
\* raises before it opens any file, and the ledger is left as it was.
EmptyLedgerRaises ==
    (adds > 0 /\ transactions(old) = <<>>) =>
        (outcome = "raised" /\ file = old)

\* C21: with currency_column set, every matched line comes out as its
\* prefix, currency_column - len(prefix) - len(number) - 4 spaces (none when
\* that is negative), two spaces, the number, one space and the rest; when
\* len(prefix) + len(number) + 4 <= currency_column the number ends just
\* before the currency column and the currency starts at the 0-based offset
\* currency_column - 1 of the line.
C21_CurrencyColumn ==
    (passes > 0 /\ params.currency_column # 0 /\ aligned.st = "ok") =>
        LET cc == params.currency_column
            norm == normalize_indent_whitespace(match_pairs(text), params.indent_width)
            outl == splitlines(aligned.out)
        IN /\ Len(outl) = Len(norm)
           /\ \A i \in 1..Len(norm) :
                 norm[i].ok =>
                    LET lp == Len(norm[i].prefix)
                        ln == Len(norm[i].number)
                        n == cc - lp - ln - 4
                        pad == IF n > 0 THEN n ELSE 0
                        l == outl[i]
                    IN /\ Len(l) = lp + pad + 2 + ln + 1 + Len(norm[i].rest)
                       /\ Slice(l, 1, lp) = norm[i].prefix
                       /\ \A j \in (lp + 1)..(lp + pad + 2) : l[j] = SP
                       /\ Slice(l, lp + pad + 3, lp + pad + 2 + ln) = norm[i].number
                       /\ l[lp + pad + 3 + ln] = SP
                       /\ Slice(l, lp + pad + 4 + ln, Len(l)) = norm[i].rest
                       /\ (lp + ln + 4 <= cc) =>
                             /\ Slice(l, cc - 1 - ln, cc - 2) = norm[i].number
                             /\ l[cc - 1] = SP
                             /\ Slice(l, cc, Len(l)) = norm[i].rest

\* a matched line that fits: its currency is at the column
C21_Witness ==
    /\ passes = 1
    /\ params.currency_column = 12
    /\ aligned.st = "ok"
    /\ text = <<"x", SP, "1", SP, "U", "S", "D", NL>>
    /\ aligned.out = <<"x", SP, SP, SP, SP, SP, SP, SP, SP, "1", SP, "U", "S", "D", NL>>

\* a matched line too long for the column: no padding but the two spaces
C21_WitnessLong ==
    /\ passes = 1
    /\ params.currency_column = 12
    /\ params.indent_width = 4
    /\ aligned.st = "ok"
    /\ text = <<TAB, "A", ":", "B", "c", "d", SP, SP, "-", "1", "2", SP, "U", "S", "D", NL>>
    /\ aligned.out = <<SP, SP, SP, SP, "A", ":", "B", "c", "d", SP, SP, "-", "1", "2",
                       SP, "U", "S", "D", NL>>

\* C22: every call of align_beancount that returns a text has passed the
\* self-check of lines 106-108 (the input and the output are equal once
\* their runs of blanks, tabs and newlines are collapsed), with
\* currency_column set as well.
C22_SelfChecked ==
    (passes > 0 /\ aligned.st = "ok") =>
        CollapseBlanks(rstrip(text)) = CollapseBlanks(rstrip(aligned.out))

\* What the code keeps: the check is made on the calls without
\* currency_column, which return only a text that passes it.
SelfCheckedWithoutColumn ==
    (passes > 0 /\ aligned.st = "ok" /\ params.currency_column = 0) =>
        CollapseBlanks(rstrip(text)) = CollapseBlanks(rstrip(aligned.out))

\* the line without its leading blanks and tabs
LStripBlanks(l) == Slice(l, Skip({SP, TAB}, l, 1), Len(l))

\* C23: a line that does not match the amount pattern comes out of
\* align_beancount unchanged, character for character, its leading white
\* space included.
C23_Unchanged ==
    (passes > 0 /\ aligned.st = "ok") =>
        LET inl == splitlines(text)
            pairs == match_pairs(text)
            outl == splitlines(aligned.out)
        IN /\ Len(outl) = Len(inl)
           /\ \A i \in 1..Len(inl) : ~pairs[i].ok => outl[i] = inl[i]

\* C23 as the code has it: a line that does not match the amount pattern
\* keeps everything after its leading blanks and tabs; when these are
\* followed by an account name they are replaced by indent_width spaces, and
\* otherwise the line is unchanged character for character.
C23_UnchangedButIndent ==
    (passes > 0 /\ aligned.st = "ok") =>
        LET inl == splitlines(text)
            pairs == match_pairs(text)
            outl == splitlines(aligned.out)
        IN /\ Len(outl) = Len(inl)
           /\ \A i \in 1..Len(inl) :
                 ~pairs[i].ok =>
                    LET w == Skip({SP, TAB}, inl[i], 1)
                    IN /\ LStripBlanks(outl[i]) = LStripBlanks(inl[i])
                       /\ IF w > 1 /\ AccountAt(inl[i], w)
                          THEN /\ Len(outl[i]) = params.indent_width + Len(inl[i]) - (w - 1)
                               /\ \A j \in 1..params.indent_width : outl[i][j] = SP
                          ELSE outl[i] = inl[i]

\* a posting line without an amount, indented by a tab: re-indented
C23_Witness ==
    /\ passes = 1
    /\ aligned.st = "ok"
    /\ text = <<TAB, "A", ":", "B", NL>>
    /\ aligned.out = <<SP, SP, SP, SP, "A", ":", "B", NL>>

\* an indented line without an account name: unchanged
C23_WitnessKept ==
    /\ passes = 1
    /\ aligned.st = "ok"
    /\ text = <<TAB, "x", NL>>
    /\ aligned.out = text

\* C24: on every exit path of add_entry, on success and when a read, a
\* write or the copy raises, the temporary file has been closed and deleted
\* when add_entry is left.
C24_TempClosed ==
    (pc = "idle" /\ outcome \in {"ok", "raised"}) => (~tempOpen /\ temp = <<>>)

\* What the code keeps: the temporary file is closed and deleted when
\* add_entry returns.
TempClosedOnReturn ==
    (pc = "idle" /\ outcome = "ok") => (~tempOpen /\ temp = <<>>)

\* C25: templates are never changed: after any sequence of get_template,
\* has_template and search_templates calls the cached store equals what was
\* loaded from the template file.
C25_TemplatesNotMutated ==
    templates.set => templates.store = template_file

\* What the code keeps: the store keeps its templates, their order and every
\* key but 'label', which a template looked up gets with its own label as
\* the value; search_templates changes nothing.
OnlyLabelAdded ==
    templates.set =>
        /\ Len(templates.store) = Len(template_file)
        /\ \A i \in 1..Len(template_file) :
              LET now == templates.store[i]
                  was == template_file[i]
              IN /\ now.label = was.label
                 /\ \/ now.t = was.t
                    \/ now.t = SetKey(was.t, "label", was.label)

SearchLeavesStore ==
    [][call'.fn = "search_templates" => templates'.store = LoadTemplates.store]_vars

\* C26: every string that the split prompt's validator valid_split accepts
\* is parsed by parse_split without an exception, for every total and total
\* currency.
C26_ValidSplitParses ==
    (result.st # "none" /\ split.kind = "str" /\ valid_split(split)) =>
        result.st = "ok"

\* What the code keeps: an accepted string raises in parse_split only as an
\* amount in a currency other than the total's, and a string that
\* valid_split rejects always raises.
ValidSplitRaisesOnCurrencyOnly ==
    (result.st # "none" /\ split.kind = "str") =>
        /\ (valid_split(split) /\ result.st # "ok") =>
              /\ Len(split.toks) = 2
              /\ split.toks[2] # Wrd(total_currency)
        /\ ~valid_split(split) => result.st # "ok"

\* C27: get_valid_date recovers from a malformed date by asking again: a
\* pass of its loop that follows a value that did not parse prompts the
\* user for a new value, and a parseable value entered at the prompt is
\* returned at once.
C27_RepromptsAfterFailure ==
    [][(call.fn = "get_valid_date" /\ ret.st = "running" /\ ret' # ret) =>
          /\ ret.tries > 0 => ret'.prompts = ret.prompts + 1
          /\ (ret'.prompts = ret.prompts + 1 /\ Parses(ret'.dateval.s))
                => ret'.st = "returned"]_vars

\* What the code does: a value that parses is returned by the pass that
\* reads it, and after a value that did not parse no prompt is made and the
\* same value is tried again, every time.
StuckOnMalformedDate ==
    [][(call.fn = "get_valid_date" /\ ret.st = "running" /\ ret' # ret) =>
          /\ Parses(ret'.dateval.s) <=> ret'.st = "returned"
          /\ ret.tries > 0 =>
                /\ ret'.prompts = ret.prompts
                /\ ret'.dateval = ret.dateval
                /\ ret'.st = "running"]_vars

\* C28: while it searches the insertion index, TransactionFile.add takes
\* every line that does not start with a date (a posting line, a comment
\* line, a blank line) as a non-date line and skips it: the call does not
\* fail on any such line.
C28_NonDateLinesSkipped ==
    (adds > 0 /\ outcome # "none") => outcome = "ok"

\* What the code keeps: posting lines and comment lines are skipped; the
\* call raises exactly when a blank line is read, that is when one stands
\* before the first entry with a later date.
RaisesOnBlankLineOnly ==
    (adds > 0 /\ outcome # "none") =>
        (outcome = "raised" <=>
            \E i \in 1..Len(old) :
                /\ old[i].kind = "blank"
                /\ \A j \in 1..(i - 1) : ~(old[j].kind = "hdr" /\ old[j].date > txn.date))

\* the accounts that stand as the k-th posting of a transaction of the
\* payee, with the number of such transactions
KthAccounts(txns, k, payee) ==
    {t.postings[k] : t \in {txns[i] : i \in {j \in 1..Len(txns) :
                                  txns[j].payee = payee /\ Len(txns[j].postings) >= k}}}

KthCount(txns, k, payee, a) ==
    Cardinality({j \in 1..Len(txns) :
        txns[j].payee = payee /\ Len(txns[j].postings) >= k /\ txns[j].postings[k] = a})

\* C29: filter_accounts(lineno=k, payee=p) completes without an error for
\* every k >= 1 and every history, also when a transaction of the payee has
\* fewer than k postings, and returns only accounts that stand as the k-th
\* posting of a transaction of the payee, by descending number of
\* occurrences.
C29_FilterAccountsCompletes ==
    (call.fn = "filter_accounts" /\ ret.st # "none" /\ call.lineno >= 1 /\ call.payee.has) =>
        /\ ret.st = "ok"
        /\ Range(ret.accounts) \subseteq KthAccounts(call.txns, call.lineno, call.payee.s)
        /\ \A i, j \in 1..Len(ret.accounts) :
              i < j => KthCount(call.txns, call.lineno, call.payee.s, ret.accounts[i])
                          >= KthCount(call.txns, call.lineno, call.payee.s, ret.accounts[j])

\* What the code keeps: when every transaction of the payee has at least k
\* postings the result is exactly the accounts of their k-th postings, each
\* once, by descending number of occurrences; otherwise IndexError is raised.
FilterAccountsWhenLongEnough ==
    (call.fn = "filter_accounts" /\ ret.st # "none" /\ call.lineno >= 1 /\ call.payee.has) =>
        LET short == \E i \in 1..Len(call.txns) :
                        /\ call.txns[i].payee = call.payee.s
                        /\ Len(call.txns[i].postings) < call.lineno
        IN IF short THEN ret.st = "IndexError"
           ELSE /\ ret.st = "ok"
                /\ Range(ret.accounts) = KthAccounts(call.txns, call.lineno, call.payee.s)
                /\ Cardinality(Range(ret.accounts)) = Len(ret.accounts)
                /\ \A i, j \in 1..Len(ret.accounts) :
                      i < j => KthCount(call.txns, call.lineno, call.payee.s, ret.accounts[i])
                                  >= KthCount(call.txns, call.lineno, call.payee.s, ret.accounts[j])

C30_WitnessSplit ==
    /\ call.fn = "_add_linedata"
    /\ ret.st = "ok"
    /\ call.line.has_splits
    /\ call.do_split
    /\ Len(ret.new) = 2
    /\ ret.new[2].of = "split"

====
